---- MODULE Spec2Model ----
(***************************************************************************)
(* Model of the workflow interpreter of appCourser2.py: the Run Loop, the  *)
(* step executors and the recursive group/array interpreter.               *)
(*                                                                         *)
(* A step is a record (the JSON object); a workflow is a sequence of       *)
(* steps.  The executors are operators that return what the Python         *)
(* function does: the events it produces, in order (calls on the           *)
(* automation surface and log lines), and how it ends (returns or raises). *)
(* The Run Loop is the state machine: one transition per loop iteration.   *)
(* Spec starts where run() is entered with a loaded workflow; MainSpec      *)
(* starts at the process start, with main() about to read the document;    *)
(* PureSpec applies a helper function to arguments drawn from small sets.  *)
(***************************************************************************)
EXTENDS Integers, Sequences, FiniteSets, TLC

\* ------------------------------------------------------------------ bounds
\* longest workflow drawn from TopPool
MaxSteps == 3
\* largest number of elements the repeated selector "li" matches in a scope
MaxMatch == 2
\* deepest nesting of group_action steps
MaxDepth == 3
\* most keys in a dict handed to get_key on its own
MaxKeys == 3

VARIABLES
    workflow,        \* the parsed workflow document: a sequence of steps
    matches,         \* the page: how many elements "li" matches in any scope
    idx,             \* run: number of the next top-level step (enumerate start=1)
    current_frame,   \* run: the ambient frame carried between top-level steps
    status,          \* run: "running", "completed" or "aborted"
    trace,           \* every surface call and log line so far, in order
    document,        \* main: what the file named by --workflow holds
    pc,              \* main: "load", "run" or "exited"
    exit_code,       \* main: None until the process exits, then 0 or 1
    call,            \* a helper function and its arguments
    result,          \* <<>> until the helper returned, then <<its value>>
    coursera         \* run of appCoursera.py: its idx, current_frame, status, trace

vars == <<workflow, matches, idx, current_frame, status, trace,
          document, pc, exit_code, call, result, coursera>>

\* ------------------------------------------------------- Python values
\* None, for string-valued fields
None == "None"
\* `not x` for a string-or-None value
Falsy(s) == s \in {None, ""}

\* str.lower() on the keys and kinds that occur in workflow documents
Lower(s) ==
    CASE s \in {"Title", "TITLE"} -> "title"
      [] s = "Type" -> "type"
      [] s = "Ignore" -> "ignore"
      [] s \in {"CLICK", "Click"} -> "click"
      [] s = "Goto" -> "goto"
      [] s \in {"Value", "VALUE"} -> "value"
      [] s = " Click " -> " click "
      [] OTHER -> s

\* str.isspace() on one character
IsSpace(c) == c = " "

RECURSIVE LStrip(_)
\* str.lstrip()
LStrip(s) ==
    IF s = "" THEN ""
    ELSE IF IsSpace(SubSeq(s, 1, 1)) THEN LStrip(SubSeq(s, 2, Len(s))) ELSE s

RECURSIVE RStrip(_)
\* str.rstrip()
RStrip(s) ==
    IF s = "" THEN ""
    ELSE IF IsSpace(SubSeq(s, Len(s), Len(s)))
    THEN RStrip(SubSeq(s, 1, Len(s) - 1)) ELSE s

\* str.strip()
Strip(s) == RStrip(LStrip(s))

\* s.startswith(prefix)
StartsWith(s, prefix) ==
    Len(s) >= Len(prefix) /\ SubSeq(s, 1, Len(prefix)) = prefix

RECURSIVE SplitWords(_, _)
\* the words of s, `word` being the word under way
SplitWords(s, word) ==
    IF s = "" THEN IF word = "" THEN <<>> ELSE <<word>>
    ELSE IF IsSpace(SubSeq(s, 1, 1))
    THEN (IF word = "" THEN <<>> ELSE <<word>>)
             \o SplitWords(SubSeq(s, 2, Len(s)), "")
    ELSE SplitWords(SubSeq(s, 2, Len(s)), word \o SubSeq(s, 1, 1))

\* str.split(): the words between runs of whitespace
Split(s) == SplitWords(s, "")

RECURSIVE Join(_, _)
\* sep.join(parts)
Join(parts, sep) ==
    IF parts = <<>> THEN ""
    ELSE IF Len(parts) = 1 THEN parts[1]
    ELSE parts[1] \o sep \o Join(Tail(parts), sep)

\* get_key(d, key, *alts, default): exact key, then the aliases in order,
\* then a key equal ignoring case, else the default.  For the steps of a
\* workflow, where at most one key equals `key` ignoring case; get_key_in
\* has the order of the scan.
get_key(d, key, alts, default) ==
    IF key \in DOMAIN d THEN d[key]
    ELSE LET hit == {n \in 1..Len(alts) : alts[n] \in DOMAIN d}
         IN  IF hit # {}
             THEN d[alts[CHOOSE n \in hit : \A o \in hit : n <= o]]
             ELSE LET ci == {k \in DOMAIN d : Lower(k) = Lower(key)}
                  IN  IF ci # {} THEN d[CHOOSE k \in ci : TRUE] ELSE default

\* a lookup that passes over a key whose value is None or empty
get_key_in_truthy(keys, d, key, alts, default) ==
    IF key \in DOMAIN d /\ ~Falsy(d[key]) THEN d[key]
    ELSE IF \E n \in 1..Len(alts) : alts[n] \in DOMAIN d
    THEN d[alts[CHOOSE n \in 1..Len(alts) :
                   /\ alts[n] \in DOMAIN d
                   /\ \A o \in 1..(n - 1) : alts[o] \notin DOMAIN d]]
    ELSE IF \E n \in 1..Len(keys) : Lower(keys[n]) = Lower(key)
    THEN d[keys[CHOOSE n \in 1..Len(keys) :
                   /\ Lower(keys[n]) = Lower(key)
                   /\ \A o \in 1..(n - 1) : Lower(keys[o]) # Lower(key)]]
    ELSE default

\* get_key on a dict d whose keys are, in the order of d.keys(), `keys`:
\* lines 88-97 with the scan of line 94 in that order
get_key_in(keys, d, key, alts, default) ==
    IF key \in DOMAIN d THEN d[key]
    ELSE IF \E n \in 1..Len(alts) : alts[n] \in DOMAIN d
    THEN d[alts[CHOOSE n \in 1..Len(alts) :
                   /\ alts[n] \in DOMAIN d
                   /\ \A o \in 1..(n - 1) : alts[o] \notin DOMAIN d]]
    ELSE IF \E n \in 1..Len(keys) : Lower(keys[n]) = Lower(key)
    THEN d[keys[CHOOSE n \in 1..Len(keys) :
                   /\ Lower(keys[n]) = Lower(key)
                   /\ \A o \in 1..(n - 1) : Lower(keys[o]) # Lower(key)]]
    ELSE default

\* to_int_or_none(get_key(step, key)): <<>> for None, <<n>> for the integer n
to_int_or_none(d, key) == IF key \in DOMAIN d THEN <<d[key]>> ELSE <<>>

\* a class clause that is always built from the words
normalize_class_selector_words(cls) ==
    IF Falsy(cls) THEN ""
    ELSE IF Split(Strip(cls)) = <<>> THEN ""
    ELSE "." \o Join(Split(Strip(cls)), ".")

\* a normalisation that hands a dotted value back as it came
normalize_class_selector_raw(cls) ==
    IF Falsy(cls) THEN ""
    ELSE IF StartsWith(Strip(cls), ".") THEN cls
    ELSE IF Split(Strip(cls)) = <<>> THEN ""
    ELSE "." \o Join(Split(Strip(cls)), ".")

\* normalize_class_selector: '' for no class, the stripped value when it
\* starts with a dot, else the words joined by dots after a dot
normalize_class_selector(cls) ==
    IF Falsy(cls) THEN ""
    ELSE IF StartsWith(Strip(cls), ".") THEN Strip(cls)
    ELSE IF Split(Strip(cls)) = <<>> THEN ""
    ELSE "." \o Join(Split(Strip(cls)), ".")

\* build_css_selector: tag (or "*") stripped, class clause, attribute clause
build_css_selector(tag, cls, attr, value) ==
    LET t == Strip(IF Falsy(tag) THEN "*" ELSE tag)
        c == normalize_class_selector(cls)
        a == IF ~Falsy(attr) /\ value # None
             THEN "[" \o attr \o "=\"" \o value \o "\"]"
             ELSE IF ~Falsy(attr) THEN "[" \o attr \o "]" ELSE ""
    IN  t \o c \o a

\* the selector of a step or condition: lines 360-368 and their copies
SelectorOf(step) ==
    build_css_selector(get_key(step, "tag", <<>>, None),
                       get_key(step, "class", <<>>, None),
                       get_key(step, "attr", <<"arrt", "attribute">>, None),
                       get_key(step, "value", <<>>, None))

\* ------------------------------------------------- the automation surface
\* A locator is the frame it lives in and the chain of (selector, text
\* filter, position) from the root; position All is the whole match set.
All == -1
\* a run that moves to the tab use_last_tab brought to the foreground
page_brought_to_front ==
    IF \E n \in 1..Len(trace) : trace[n].op = "bring_to_front"
    THEN trace[CHOOSE n \in 1..Len(trace) :
                  /\ trace[n].op = "bring_to_front"
                  /\ \A m \in (n + 1)..Len(trace) : trace[m].op # "bring_to_front"
              ].loc.page
    ELSE "tab1"

\* line 1023: the page of the run, the first tab of the browser; no line of
\* the loop assigns it again
page == "tab1"
\* browser.pages[n - 1]
TabRoot(n) == [page |-> "tab" \o ToString(n), frame |-> None, path |-> <<>>]
PageRoot == [page |-> page, frame |-> None, path |-> <<>>]
FrameRoot(f) == [page |-> page, frame |-> f, path |-> <<>>]
NoLoc == [page |-> "", frame |-> "", path |-> <<>>]

\* root.locator(selector)
Locator(root, selector) ==
    [root EXCEPT !.path = Append(@, [sel |-> selector, text |-> "", n |-> All])]
\* loc.filter(has_text=text)
Filter(loc, text) ==
    [loc EXCEPT !.path[Len(loc.path)].text = text]
\* loc.nth(i)
Nth(loc, i) ==
    [loc EXCEPT !.path[Len(loc.path)].n = i]

LastSel(loc) == loc.path[Len(loc.path)].sel

\* loc.count(): the page of the model.  "none" matches nothing, "li" matches
\* `matches` elements in every scope, "first" matches one element except
\* inside a parent that is not the first of its set, a text filter "absent"
\* matches nothing, every other selector matches one element.
Count(loc) ==
    LET k == Len(loc.path)
        e == loc.path[k]
    IN  IF e.text = "absent" \/ e.sel = "none" THEN 0
        ELSE IF e.sel = "li" THEN matches
        ELSE IF e.sel = "first"
             THEN IF k > 1 /\ loc.path[k - 1].n > 0 THEN 0 ELSE 1
        ELSE 1

\* target.wait_for(state="visible") succeeds: "hid" never becomes visible
Visible(target) == LastSel(target) # "hid"
\* target.click() succeeds: a click on "dead" raises
Clickable(target) == LastSel(target) # "dead"
\* target.get_attribute("href") is set: "a" and "slow" are links
HasHref(target) == LastSel(target) \in {"a", "slow"}
\* page.wait_for_load_state("networkidle") returns in time: after a click on
\* "slow" the network never goes idle and the wait times out
Settles(target) == LastSel(target) # "slow"
\* target.clear() succeeds: "ro" is read-only
Clearable(target) == LastSel(target) # "ro"

\* ------------------------------------------------------------- events
\* One entry of the trace: a call on the surface or a log line, made while
\* executing the step at path `at`: <<k>> is top-level step k, and each
\* nesting adds <<i, j>>: parent index i (0-based; Alt inside a condition)
\* and number j of the nested entry (1-based).
\* `arg` is the call's argument when it has one (a URL, a character, a file name).
EvA(op, at, loc, ok, arg) ==
    [op |-> op, at |-> at, loc |-> loc, ok |-> ok, arg |-> arg]
Ev(op, at, loc, ok) == EvA(op, at, loc, ok, "")
Log(op, at) == Ev(op, at, NoLoc, TRUE)
\* the log line that opens a step or a nested action (lines 1037 and 948),
\* tagged with the frame the step is dispatched with
Dispatch(op, at, frame) == EvA(op, at, NoLoc, TRUE, frame)
Alt == -1

\* how a call ends: it returns (exc = "none") or raises
Returns(tr) == [tr |-> tr, exc |-> "none"]
Raises(tr, e) == [tr |-> tr, exc |-> e]

\* ------------------------------------------------- sequencing and handlers
\* statements that run in the wrong order
ThenRestFirst(r, rest) ==
    IF r.exc # "none" THEN [tr |-> r.tr, exc |-> r.exc]
    ELSE [tr |-> rest.tr \o r.tr, exc |-> rest.exc]

\* statement r followed by the statements `rest`: an exception of r skips rest
Then(r, rest) ==
    IF r.exc # "none" THEN [tr |-> r.tr, exc |-> r.exc]
    ELSE [tr |-> r.tr \o rest.tr, exc |-> rest.exc]

\* the events tr, then r
After(tr, r) == [tr |-> tr \o r.tr, exc |-> r.exc]

\* a handler that lets a timeout through whatever ignore_error is
HandledButTimeout(calls, failure, ignore_error, at) ==
    IF failure = "none" THEN Returns(calls)
    ELSE IF ignore_error /\ failure # "PWTimeout"
    THEN Returns(Append(calls, Log("warning", at)))
    ELSE Raises(calls, failure)

\* try: <calls, ending in the exception `failure` or in "none">
\* except Exception: if ignore_error: warning (and return) else: raise
\* (lines 185-192, 465-469, 670-674, 769-782)
Handled(calls, failure, ignore_error, at) ==
    IF failure = "none" THEN Returns(calls)
    ELSE IF ignore_error THEN Returns(Append(calls, Log("warning", at)))
    ELSE Raises(calls, failure)

\* a check of the count that forgets the index
OutOfRangeZeroOnly(count, index) == count = 0

\* lines 144-160, 428-447, 642-661, 720-741: the element count and the index
\* check that open a try block
OutOfRange(count, index) == count = 0 \/ index < 0 \/ index >= count

\* --------------------------------------------------------- wait_and_click
\* a wait_and_click that clicks before it scrolls the element into view
ClickCallsScrollLate(loc, target, at) ==
    << Ev("count", at, loc, TRUE),
       Ev("wait_for", at, target, Visible(target)),
       Ev("get_attribute", at, target, TRUE),
       Ev("click", at, target, Clickable(target)),
       Ev("scroll_into_view", at, target, TRUE),
       Ev("wait_for_load_state", at, target, Settles(target)) >>

\* the calls of wait_and_click on the surface, in order, when none fails
ClickCalls(loc, target, at) ==
    << Ev("count", at, loc, TRUE),
       Ev("wait_for", at, target, Visible(target)),
       Ev("scroll_into_view", at, target, TRUE),
       Ev("get_attribute", at, target, TRUE),
       Ev("click", at, target, Clickable(target)),
       Ev("wait_for_load_state", at, target, Settles(target)) >>

\* a click that goes ahead whatever the count was
ClickMadeRegardless(count, index, target) == 5

\* how many of them are made: up to the first that raises; the wait for the
\* load state is made for a link only, and its failure is swallowed
ClickMade(count, index, target) ==
    IF OutOfRange(count, index) THEN 1
    ELSE IF ~Visible(target) THEN 2
    ELSE IF ~Clickable(target) THEN 5
    ELSE IF HasHref(target) THEN 6 ELSE 5

\* a wait_and_click that lets the timeout of the load-state wait through
ClickFailureOnWait(count, index, target) ==
    IF OutOfRange(count, index) THEN "RuntimeError"
    ELSE IF ~Visible(target) THEN "PWTimeout"
    ELSE IF ~Clickable(target) THEN "Error"
    ELSE IF HasHref(target) /\ ~Settles(target) THEN "PWTimeout"
    ELSE "none"

\* the exception that ends the try block of wait_and_click, "none" if none
ClickFailure(count, index, target) ==
    IF OutOfRange(count, index) THEN "RuntimeError"
    ELSE IF ~Visible(target) THEN "PWTimeout"
    ELSE IF ~Clickable(target) THEN "Error"
    ELSE "none"

\* a wait_and_click that raises whatever ignore_error is
WaitAndClickEndStrict(calls, failure, ignore_error, at) ==
    IF failure = "none" THEN [tr |-> calls, exc |-> "none", ret |-> TRUE]
    ELSE [tr |-> calls, exc |-> "RuntimeError", ret |-> FALSE]

\* a wait_and_click that re-raises the exception it caught
WaitAndClickEndPassing(calls, failure, ignore_error, at) ==
    IF failure = "none" THEN [tr |-> calls, exc |-> "none", ret |-> TRUE]
    ELSE IF ignore_error
    THEN [tr |-> Append(calls, Log("warning", at)), exc |-> "none", ret |-> FALSE]
    ELSE [tr |-> calls, exc |-> failure, ret |-> FALSE]

\* lines 185-192: every exception becomes a RuntimeError, or False under
\* ignore_error; ret is the value returned
WaitAndClickEnd(calls, failure, ignore_error, at) ==
    IF failure = "none" THEN [tr |-> calls, exc |-> "none", ret |-> TRUE]
    ELSE IF ignore_error
    THEN [tr |-> Append(calls, Log("warning", at)), exc |-> "none", ret |-> FALSE]
    ELSE [tr |-> calls, exc |-> "RuntimeError", ret |-> FALSE]

wait_and_click(loc, index, ignore_error, at) ==
    WaitAndClickEnd(
        SubSeq(ClickCalls(loc, Nth(loc, index), at), 1,
               ClickMade(Count(loc), index, Nth(loc, index))),
        ClickFailure(Count(loc), index, Nth(loc, index)),
        ignore_error, at)

\* lines 387-393 and 562-570: the caller's `except PWTimeout` around the
\* call r of wait_and_click; every other outcome passes through
ExceptPWTimeout(r, ignore_error, at) ==
    IF r.exc # "PWTimeout" THEN [tr |-> r.tr, exc |-> r.exc]
    ELSE IF ignore_error THEN Returns(Append(r.tr, Log("warning", at)))
    ELSE Raises(r.tr, "RuntimeError")

\* ------------------------------------------------------- get_locator_root
\* a resolver that prefers the frame to the parent
get_locator_root_frame_first(current_frame_, parent) ==
    IF current_frame_ # None THEN FrameRoot(current_frame_)
    ELSE IF parent # <<>> THEN parent[1]
    ELSE PageRoot

\* a resolver that never looks at the parent
get_locator_root_no_parent(current_frame_, parent) ==
    IF current_frame_ # None THEN FrameRoot(current_frame_) ELSE PageRoot

\* parent (<<p>> when set, <<>> when None), else the frame, else the page
get_locator_root(current_frame_, parent) ==
    IF parent # <<>> THEN parent[1]
    ELSE IF current_frame_ # None THEN FrameRoot(current_frame_)
    ELSE PageRoot

\* loc, filtered by text when text is given
Filtered(loc, text) == IF ~Falsy(text) THEN Filter(loc, text) ELSE loc

\* root.locator(selector) of a step, filtered by the text under `textkey`
Resolve(step, textkey, current_frame_, parent) ==
    Filtered(Locator(get_locator_root(current_frame_, parent), SelectorOf(step)),
             get_key(step, textkey, <<>>, None))

\* idx: to_int_or_none(get_key(step, "array_select_one")), 0 when None
IndexOf(step) ==
    IF "array_select_one" \in DOMAIN step THEN step["array_select_one"] ELSE 0

\* -------------------------------------------------------- check_condition
\* an evaluator that reads every status but "found" as not_found
ConditionEndLenient(cstatus, loc, count, at) ==
    IF Falsy(cstatus) THEN [tr |-> <<>>, exc |-> "RuntimeError", ret |-> FALSE]
    ELSE IF cstatus = "found"
    THEN [tr |-> <<Ev("cond_count", at, loc, TRUE)>>, exc |-> "none",
          ret |-> count > 0]
    ELSE [tr |-> <<Ev("cond_count", at, loc, TRUE)>>, exc |-> "none",
          ret |-> count = 0]

\* lines 248-270; ret is the truth value, raises on a missing or unknown status
ConditionEnd(cstatus, loc, count, at) ==
    IF Falsy(cstatus) THEN [tr |-> <<>>, exc |-> "RuntimeError", ret |-> FALSE]
    ELSE IF cstatus = "found"
    THEN [tr |-> <<Ev("cond_count", at, loc, TRUE)>>, exc |-> "none",
          ret |-> count > 0]
    ELSE IF cstatus = "not_found"
    THEN [tr |-> <<Ev("cond_count", at, loc, TRUE)>>, exc |-> "none",
          ret |-> count = 0]
    ELSE [tr |-> <<Ev("cond_count", at, loc, TRUE)>>, exc |-> "RuntimeError",
          ret |-> FALSE]

check_condition(condition, current_frame_, parent, at) ==
    ConditionEnd(get_key(condition, "status", <<>>, None),
                 Resolve(condition, "text", current_frame_, parent),
                 Count(Resolve(condition, "text", current_frame_, parent)), at)

\* --------------------------------------------------------- exec_step_click
\* isinstance(x, dict): an entry that is no JSON object is [nondict |-> TRUE]
IsDict(x) == "nondict" \notin DOMAIN x

\* a call that returns a value, as a statement
Stmt(r) == [tr |-> r.tr, exc |-> r.exc]

\* the primary click of exec_step_click, lines 360-395
PrimaryClick(step, current_frame_, parent, at) ==
    ExceptPWTimeout(
        wait_and_click(Resolve(step, "text", current_frame_, parent),
                       IndexOf(step), get_key(step, "ignore", <<>>, FALSE), at),
        get_key(step, "ignore", <<>>, FALSE), at)

\* lines 344-357: whether the alternate click list replaces the primary click
TakesAlternate(condition_met) == condition_met

RECURSIVE exec_step_click(_, _, _, _)
RECURSIVE AltClicks(_, _, _, _, _)

\* the loop of lines 350-356 from entry k on
AltClicks(alt_clicks, k, current_frame_, parent, at) ==
    IF k > Len(alt_clicks) THEN Returns(<<>>)
    ELSE IF ~IsDict(alt_clicks[k])
         THEN AltClicks(alt_clicks, k + 1, current_frame_, parent, at)
    ELSE Then(exec_step_click(alt_clicks[k], current_frame_, parent,
                              at \o <<Alt, k>>),
              AltClicks(alt_clicks, k + 1, current_frame_, parent, at))

\* lines 341-395, c being the result of check_condition(condition)
ClickAfterCondition(step, condition, c, current_frame_, parent, at) ==
    IF c.exc # "none" THEN Stmt(c)
    ELSE IF TakesAlternate(c.ret)
    THEN After(c.tr, AltClicks(get_key(condition, "click", <<>>, <<>>), 1,
                               current_frame_, parent, at))
    ELSE After(c.tr, PrimaryClick(step, current_frame_, parent, at))

\* lines 339-395, condition being get_key(step, "if")
ClickBody(step, condition, current_frame_, parent, at) ==
    IF DOMAIN condition # {}
    THEN ClickAfterCondition(step, condition,
             check_condition(condition, current_frame_, parent, at),
             current_frame_, parent, at)
    ELSE PrimaryClick(step, current_frame_, parent, at)

exec_step_click(step, current_frame_, parent, at) ==
    ClickBody(step, get_key(step, "if", <<>>, <<>>), current_frame_, parent, at)

\* --------------------------------------------------------- exec_step_goto
\* page.goto(url) succeeds: navigation to "bad://" raises
Navigable(url) == url # "bad://"

\* lines 328-331, url being get_key(step, "value", "url")
GotoBody(url, at) ==
    IF Falsy(url) THEN Raises(<<>>, "RuntimeError")
    ELSE IF ~Navigable(url)
    THEN Raises(<<EvA("goto", at, PageRoot, FALSE, url)>>, "Error")
    ELSE Returns(<<EvA("goto", at, PageRoot, TRUE, url)>>)

\* a goto that falls back on `url` when `value` holds nothing
exec_step_goto_either(step, at) ==
    GotoBody(IF "value" \in DOMAIN step /\ ~Falsy(step["value"]) THEN step["value"]
             ELSE IF "url" \in DOMAIN step THEN step["url"]
             ELSE None, at)

exec_step_goto(step, at) == GotoBody(get_key(step, "value", <<"url">>, None), at)

\* --------------------------------------------------------- exec_step_write
\* the characters of a text, in order
Chars(text) == [n \in 1..Len(text) |-> SubSeq(text, n, n)]

\* a typist that starts with the last character
human_type_backwards(target, chars, at) ==
    [n \in 1..Len(chars) |-> EvA("type", at, target, TRUE, chars[Len(chars) + 1 - n])]

\* human_type(element, text): one type call per character
human_type(target, chars, at) ==
    [n \in 1..Len(chars) |-> EvA("type", at, target, TRUE, chars[n])]

\* the calls of exec_step_write on the surface, in order, when none fails
WriteCalls(loc, target, clear, text, at) ==
    << Ev("count", at, loc, TRUE),
       Ev("wait_for", at, target, Visible(target)),
       Ev("scroll_into_view", at, target, TRUE),
       Ev("click", at, target, Clickable(target)) >>
    \o (IF clear THEN <<Ev("clear", at, target, Clearable(target))>> ELSE <<>>)
    \o human_type(target, Chars(text), at)

\* how many of them are made: up to the first that raises
WriteMade(count, index, target, clear, text) ==
    IF OutOfRange(count, index) THEN 1
    ELSE IF ~Visible(target) THEN 2
    ELSE IF ~Clickable(target) THEN 4
    ELSE IF clear /\ ~Clearable(target) THEN 5
    ELSE 4 + (IF clear THEN 1 ELSE 0) + Len(Chars(text))

\* the exception that ends the try block, "none" if none
WriteFailure(count, index, target, clear) ==
    IF OutOfRange(count, index) THEN "RuntimeError"
    ELSE IF ~Visible(target) THEN "PWTimeout"
    ELSE IF ~Clickable(target) THEN "Error"
    ELSE IF clear /\ ~Clearable(target) THEN "Error"
    ELSE "none"

\* lines 403-469, with text, loc and clear read from the step
WriteBody(text, loc, index, clear, ignore_error, at) ==
    IF Falsy(text) THEN Raises(<<>>, "RuntimeError")
    ELSE Handled(
           SubSeq(WriteCalls(loc, Nth(loc, index), clear, text, at), 1,
                  WriteMade(Count(loc), index, Nth(loc, index), clear, text)),
           WriteFailure(Count(loc), index, Nth(loc, index), clear),
           ignore_error, at)

exec_step_write(step, current_frame_, parent, at) ==
    WriteBody(get_key(step, "write", <<"value", "text">>, None),
              Resolve(step, "text", current_frame_, parent),
              IndexOf(step),
              get_key(step, "clear", <<>>, TRUE),
              get_key(step, "ignore", <<>>, FALSE), at)

\* -------------------------------------------------------- exec_step_scroll
\* the calls of the element scroll on the surface, in order
ScrollCalls(loc, target, at) ==
    << Ev("count", at, loc, TRUE),
       Ev("wait_for", at, target, Visible(target)),
       Ev("scroll_into_view", at, target, TRUE) >>

ScrollMade(count, index, target) ==
    IF OutOfRange(count, index) THEN 1
    ELSE IF ~Visible(target) THEN 2
    ELSE 3

ScrollFailure(count, index, target) ==
    IF OutOfRange(count, index) THEN "RuntimeError"
    ELSE IF ~Visible(target) THEN "PWTimeout"
    ELSE "none"

\* line 623: any([tag, attr, value, cls, text])
AnySelector(step) ==
    \/ ~Falsy(get_key(step, "tag", <<>>, None))
    \/ ~Falsy(get_key(step, "attr", <<"arrt", "attribute">>, None))
    \/ ~Falsy(get_key(step, "value", <<>>, None))
    \/ ~Falsy(get_key(step, "class", <<>>, None))
    \/ ~Falsy(get_key(step, "text", <<>>, None))

\* lines 638-674
ScrollToElement(loc, index, ignore_error, at) ==
    Handled(SubSeq(ScrollCalls(loc, Nth(loc, index), at), 1,
                   ScrollMade(Count(loc), index, Nth(loc, index))),
            ScrollFailure(Count(loc), index, Nth(loc, index)),
            ignore_error, at)

\* a scroll that goes by position only when both coordinates are given
IsPositionScrollBoth(step) == "x" \in DOMAIN step /\ "y" \in DOMAIN step

\* line 613: x is not None or y is not None
IsPositionScroll(step) == "x" \in DOMAIN step \/ "y" \in DOMAIN step

\* lines 615-618: the argument of window.scrollTo, a missing coordinate
\* being 0
ScrollToArg(step) ==
    ToString(IF "x" \in DOMAIN step THEN step.x ELSE 0) \o ", "
        \o ToString(IF "y" \in DOMAIN step THEN step.y ELSE 0)

exec_step_scroll(step, current_frame_, parent, at) ==
    IF IsPositionScroll(step)
    THEN Returns(<<EvA("scrollTo", at, PageRoot, TRUE, ScrollToArg(step))>>)
    ELSE IF ~AnySelector(step) THEN Raises(<<>>, "RuntimeError")
    ELSE ScrollToElement(Resolve(step, "text", current_frame_, parent),
                         IndexOf(step), get_key(step, "ignore", <<>>, FALSE), at)

\* --------------------------------------------------------- switch_to_frame
\* page.frames of the model page, in frame-list order
Frames ==
    << [name |-> "top", url |-> "https://a/x"],
       [name |-> "pay", url |-> "https://b/checkout/y"] >>

\* `needle in hay` for the URLs of Frames
Contains(hay, needle) ==
    \/ needle = hay
    \/ needle \in {"https", "/"}
    \/ hay = "https://a/x" /\ needle \in {"a/x", "x"}
    \/ hay = "https://b/checkout/y" /\ needle \in {"checkout", "b/", "y"}

\* the greatest number of a set of numbers
Greatest(S) == CHOOSE n \in S : \A o \in S : n >= o

\* the least number of a set of numbers
Least(S) == CHOOSE n \in S : \A o \in S : n <= o

\* page.frame(name=frame_name): lines 294-297
FrameByName(frame_name, at) ==
    IF \E n \in 1..Len(Frames) : Frames[n].name = frame_name
    THEN [tr |-> <<EvA("frame", at, PageRoot, TRUE, frame_name)>>,
          exc |-> "none", ret |-> frame_name]
    ELSE [tr |-> <<EvA("frame", at, PageRoot, FALSE, frame_name)>>,
          exc |-> "RuntimeError", ret |-> None]

\* the scan of lines 300-303
FrameByUrl(frame_url, at) ==
    IF \E n \in 1..Len(Frames) : Contains(Frames[n].url, frame_url)
    THEN [tr |-> <<EvA("frames", at, PageRoot, TRUE, frame_url)>>,
          exc |-> "none",
          ret |-> Frames[Least({n \in 1..Len(Frames) :
                                   Contains(Frames[n].url, frame_url)})].name]
    ELSE [tr |-> <<EvA("frames", at, PageRoot, TRUE, frame_url)>>,
          exc |-> "RuntimeError", ret |-> None]

\* lines 306-311
FrameByIndex(frame_index, at) ==
    IF frame_index < 0 \/ frame_index >= Len(Frames)
    THEN [tr |-> <<EvA("frames", at, PageRoot, TRUE, "")>>,
          exc |-> "RuntimeError", ret |-> None]
    ELSE [tr |-> <<EvA("frames", at, PageRoot, TRUE, "")>>,
          exc |-> "none", ret |-> Frames[frame_index + 1].name]

\* ret is the frame handle: a frame's name, or "fl:" and the selector for a
\* frame locator
switch_to_frame(step, at) ==
    IF ~Falsy(get_key(step, "selector", <<>>, None))
    THEN [tr |-> <<EvA("frame_locator", at, PageRoot, TRUE,
                       get_key(step, "selector", <<>>, None))>>,
          exc |-> "none", ret |-> "fl:" \o get_key(step, "selector", <<>>, None)]
    ELSE IF ~Falsy(get_key(step, "name", <<>>, None))
    THEN FrameByName(get_key(step, "name", <<>>, None), at)
    ELSE IF ~Falsy(get_key(step, "url", <<>>, None))
    THEN FrameByUrl(get_key(step, "url", <<>>, None), at)
    ELSE IF "index" \in DOMAIN step THEN FrameByIndex(step["index"], at)
    ELSE [tr |-> <<>>, exc |-> "RuntimeError", ret |-> None]

exec_step_frame(step, at) == switch_to_frame(step, at)

\* switch_to_main_frame: returns None
exec_step_main_frame(step, at) == [tr |-> <<>>, exc |-> "none", ret |-> None]

\* -------------------------------------------------- exec_step_use_last_tab
\* len(browser.pages): a click on a link "a" that succeeded opened a tab
Tabs(before) ==
    1 + Cardinality({n \in 1..Len(before) :
                        /\ before[n].op = "click"
                        /\ before[n].ok
                        /\ HasHref(before[n].loc)})

\* `before` is every event of the run up to this call
exec_step_use_last_tab(step, before, at) ==
    IF Tabs(before) > 1
    THEN Returns(<<Ev("bring_to_front", at, TabRoot(Tabs(before)), TRUE)>>)
    ELSE Returns(<<>>)

\* ------------------------------------------------------ make_safe_filename
\* the characters of the class [\\/*?:"<>|]
UnsafeChars == {"\\", "/", "*", "?", ":", "\"", "<", ">", "|"}

RECURSIVE SanitizeFirst(_)
\* a substitution that stops after the first replacement
SanitizeFirst(base) ==
    IF base = "" THEN ""
    ELSE IF SubSeq(base, 1, 1) \in UnsafeChars
    THEN "_" \o SubSeq(base, 2, Len(base))
    ELSE SubSeq(base, 1, 1) \o SanitizeFirst(SubSeq(base, 2, Len(base)))

RECURSIVE Sanitize(_)
\* re.sub(r'[\\/*?:"<>|]', "_", base)
Sanitize(base) ==
    IF base = "" THEN ""
    ELSE (IF SubSeq(base, 1, 1) \in UnsafeChars THEN "_" ELSE SubSeq(base, 1, 1))
             \o Sanitize(SubSeq(base, 2, Len(base)))

\* str.lower() on one character
LowerChar(c) ==
    LET upper == "ABCDEFGHIJKLMNOPQRSTUVWXYZ"
        lower == "abcdefghijklmnopqrstuvwxyz"
    IN  IF \E n \in 1..Len(upper) : SubSeq(upper, n, n) = c
        THEN SubSeq(lower, CHOOSE n \in 1..Len(upper) : SubSeq(upper, n, n) = c,
                    CHOOSE n \in 1..Len(upper) : SubSeq(upper, n, n) = c)
        ELSE c

RECURSIVE LowerCase(_)
\* str.lower() of a file name, character by character
LowerCase(s) ==
    IF s = "" THEN ""
    ELSE LowerChar(SubSeq(s, 1, 1)) \o LowerCase(SubSeq(s, 2, Len(s)))

\* base.lower().endswith(ext.lower())
EndsWith(base, ext) ==
    /\ Len(ext) <= Len(base)
    /\ SubSeq(LowerCase(base), Len(base) - Len(ext) + 1, Len(base)) = LowerCase(ext)

\* lines 210-213, base being (name or "").strip() or default
SafeName(base, ext) ==
    IF ext # "" /\ ~EndsWith(Sanitize(base), ext)
    THEN Sanitize(base) \o ext ELSE Sanitize(base)

make_safe_filename(name, default, ext) ==
    SafeName(IF Falsy(name) \/ Strip(name) = "" THEN default ELSE Strip(name), ext)

\* ------------------------------------------------ exec_step_download_from_link
\* expect_download sees a download start: only a click on "a" starts one
Downloads(target) == LastSel(target) = "a"
\* download.suggested_filename
Suggested == "a/b.mp4"

\* lines 760-763: safe_name, of the step's filename or of the suggested one
safe_name(filename, suggested) ==
    IF ~Falsy(filename) THEN make_safe_filename(filename, "download", "")
    ELSE make_safe_filename(suggested, "download", "")

\* the calls of exec_step_download_from_link, in order, when none fails
DownloadCalls(loc, target, filename, at) ==
    << Ev("count", at, loc, TRUE),
       Ev("wait_for", at, target, Visible(target)),
       Ev("scroll_into_view", at, target, TRUE),
       Ev("click", at, target, Clickable(target)),
       Ev("expect_download", at, target, Downloads(target)),
       EvA("save_as", at, target, TRUE, safe_name(filename, Suggested)) >>

DownloadMade(count, index, target) ==
    IF OutOfRange(count, index) THEN 1
    ELSE IF ~Visible(target) THEN 2
    ELSE IF ~Clickable(target) THEN 4
    ELSE IF ~Downloads(target) THEN 5
    ELSE 6

\* a timeout reaches the handler of lines 769-777 and becomes a RuntimeError
DownloadFailure(count, index, target) ==
    IF OutOfRange(count, index) THEN "RuntimeError"
    ELSE IF ~Visible(target) THEN "RuntimeError"
    ELSE IF ~Clickable(target) THEN "Error"
    ELSE IF ~Downloads(target) THEN "RuntimeError"
    ELSE "none"

\* lines 716-782
DownloadBody(loc, index, filename, ignore_error, at) ==
    Handled(SubSeq(DownloadCalls(loc, Nth(loc, index), filename, at), 1,
                   DownloadMade(Count(loc), index, Nth(loc, index))),
            DownloadFailure(Count(loc), index, Nth(loc, index)),
            ignore_error, at)

exec_step_download_from_link(step, current_frame_, parent, at) ==
    DownloadBody(Resolve(step, "text", current_frame_, parent), IndexOf(step),
                 get_key(step, "filename", <<"file_name", "file">>, None),
                 get_key(step, "ignore", <<>>, FALSE), at)

\* --------------------------------------------------- exec_step_download_page
\* os.path.basename(urlparse(page.url).path) or "page"
PageBase == "page"

\* lines 812-840
DownloadPageBody(mode, filename, at) ==
    IF mode \notin {"html", "text", "txt"} THEN Raises(<<>>, "RuntimeError")
    ELSE Returns(<<Ev(IF mode = "html" THEN "content" ELSE "inner_text",
                      at, PageRoot, TRUE),
                   EvA("write_file", at, PageRoot, TRUE,
                       make_safe_filename(
                           IF Falsy(filename) THEN PageBase ELSE filename,
                           "page",
                           IF mode = "html" THEN ".html" ELSE ".txt"))>>)

exec_step_download_page(step, at) ==
    DownloadPageBody(Lower(get_key(step, "mode", <<"format", "as">>, "html")),
                     get_key(step, "filename", <<"file_name", "file">>, None), at)

\* --------------------------------------------------------- parent selection
\* the parents taken last first
ParentIndicesReversed(total, step) ==
    IF total = 0 THEN <<>>
    ELSE IF "array_select_one" \in DOMAIN step
    THEN IF step["array_select_one"] < 0 \/ step["array_select_one"] >= total
         THEN <<>> ELSE <<step["array_select_one"]>>
    ELSE [n \in 1..total |-> total - n]

\* every parent taken, whatever array_select_one says
ParentIndicesAll(total, step) == [n \in 1..total |-> n - 1]

\* lines 496-525 and 884-915: parent_indices, <<>> when the step ends there
ParentIndices(total, step) ==
    IF total = 0 THEN <<>>
    ELSE IF "array_select_one" \in DOMAIN step
    THEN IF step["array_select_one"] < 0 \/ step["array_select_one"] >= total
         THEN <<>> ELSE <<step["array_select_one"]>>
    ELSE [n \in 1..total |-> n - 1]

\* a step that looks at its nested list before it looks for parents
OverParentsListFirst(parents, indices, nested, ignore_error, loop, at) ==
    IF nested = <<>>
    THEN Raises(<<Ev("count", at, parents, TRUE)>>, "RuntimeError")
    ELSE IF indices = <<>>
    THEN Handled(<<Ev("count", at, parents, TRUE)>>, "RuntimeError",
                 ignore_error, at)
    ELSE After(<<Ev("count", at, parents, TRUE)>>, loop)

\* lines 496-529 and 884-919: an array or group step whose parents are
\* `parents`, whose nested list is `nested` and whose loop is `loop`
OverParents(parents, indices, nested, ignore_error, loop, at) ==
    IF indices = <<>>
    THEN Handled(<<Ev("count", at, parents, TRUE)>>, "RuntimeError",
                 ignore_error, at)
    ELSE IF nested = <<>>
    THEN Raises(<<Ev("count", at, parents, TRUE)>>, "RuntimeError")
    ELSE After(<<Ev("count", at, parents, TRUE)>>, loop)

\* --------------------------------------------------------- exec_step_array
\* one child click of lines 535-571
ChildClick(child, p, at) ==
    ExceptPWTimeout(
        wait_and_click(
            Filtered(Locator(p, SelectorOf(child)),
                     get_key(child, "text", <<>>, None)),
            0, get_key(child, "ignore", <<>>, FALSE), at),
        get_key(child, "ignore", <<>>, FALSE), at)

RECURSIVE ArrayChildren(_, _, _, _, _)
\* the inner loop of lines 535-571, from child j on, for parent index i
ArrayChildren(clicks, j, p, i, at) ==
    IF j > Len(clicks) THEN Returns(<<>>)
    ELSE Then(ChildClick(clicks[j], p, at \o <<i, j>>),
              ArrayChildren(clicks, j + 1, p, i, at))

RECURSIVE ArrayParents(_, _, _, _, _)
\* the outer loop of lines 532-571, from the k-th selected parent on
ArrayParents(clicks, parents, indices, k, at) ==
    IF k > Len(indices) THEN Returns(<<>>)
    ELSE Then(ArrayChildren(clicks, 1, Nth(parents, indices[k]), indices[k], at),
              ArrayParents(clicks, parents, indices, k + 1, at))

\* lines 490-573, parents being the parent locator
ArrayBody(step, parents, clicks, at) ==
    OverParents(parents, ParentIndices(Count(parents), step), clicks,
                get_key(step, "ignore", <<>>, FALSE),
                ArrayParents(clicks, parents,
                             ParentIndices(Count(parents), step), 1, at),
                at)

exec_step_array(step, current_frame_, parent, at) ==
    ArrayBody(step, Resolve(step, "if_find_text_inside", current_frame_, parent),
              get_key(step, "click", <<>>, <<>>), at)

\* --------------------------------------------------- exec_step_group_action
\* str(a_type).strip().lower()
StypeL(stype) == Lower(Strip(stype))

\* a group whose handler swallows every failure
GroupToleratesAlways(action_ignore, ignore_error) == TRUE
\* a group whose handler needs both flags
GroupToleratesBoth(action_ignore, ignore_error) == action_ignore /\ ignore_error
\* a group whose handler reads the nested action's flag only
GroupToleratesOwn(action_ignore, ignore_error) == action_ignore

\* lines 988-995: whether the failure of a nested action is swallowed
GroupTolerates(action_ignore, ignore_error) == action_ignore \/ ignore_error

\* the result r of an executor that leaves the frame alone
Keeps(r, frame) == [tr |-> r.tr, exc |-> r.exc, frame |-> frame]
\* a dispatch that forgets to reset the frame
SetsNothing(r, frame, new) == [tr |-> r.tr, exc |-> r.exc, frame |-> frame]

\* the result r of an executor after which the frame becomes `new`, unless
\* it raised
Sets(r, frame, new) ==
    [tr |-> r.tr, exc |-> r.exc, frame |-> IF r.exc = "none" THEN new ELSE frame]
\* a dispatch that drops what the executor returned
SetsRetNothing(r, frame) == [tr |-> r.tr, exc |-> r.exc, frame |-> frame]

\* the frame becomes what the executor returned
SetsRet(r, frame) ==
    [tr |-> r.tr, exc |-> r.exc, frame |-> IF r.exc = "none" THEN r.ret ELSE frame]
\* a dispatch that passes over every kind it does not support
UnsupportedSkips(tolerate, frame, at) ==
    [tr |-> <<Log("warning", at)>>, exc |-> "none", frame |-> frame]

\* lines 978-986 and 1073-1079: a kind that is not supported
Unsupported(tolerate, frame, at) ==
    IF tolerate
    THEN [tr |-> <<Log("warning", at)>>, exc |-> "none", frame |-> frame]
    ELSE [tr |-> <<>>, exc |-> "RuntimeError", frame |-> frame]

RECURSIVE exec_step_group_action(_, _, _, _, _)
RECURSIVE GroupParents(_, _, _, _, _, _, _)
RECURSIVE GroupActions(_, _, _, _, _, _, _, _)

\* lines 954-986: the dispatch of one nested action.  frame is local_frame
\* after the action; `before` is every event of the run up to the action.
NestedDispatch(stype_l, action, local_frame, p, tolerate, before, at) ==
    CASE stype_l = "click" ->
            Keeps(exec_step_click(action, local_frame, <<p>>, at), local_frame)
      [] stype_l = "write" ->
            Keeps(exec_step_write(action, local_frame, <<p>>, at), local_frame)
      [] stype_l = "scroll" ->
            Keeps(exec_step_scroll(action, local_frame, <<p>>, at), local_frame)
      [] stype_l = "array" ->
            Keeps(exec_step_array(action, local_frame, <<p>>, at), local_frame)
      [] stype_l = "group_action" ->
            Keeps(exec_step_group_action(action, local_frame, <<p>>, before, at),
                  local_frame)
      [] stype_l = "download_from_link" ->
            Keeps(exec_step_download_from_link(action, local_frame, <<p>>, at),
                  local_frame)
      [] stype_l \in {"download_page", "save_page"} ->
            Keeps(exec_step_download_page(action, at), local_frame)
      [] stype_l = "use_last_tab" ->
            Keeps(exec_step_use_last_tab(action, before, at), local_frame)
      [] stype_l = "goto" -> Sets(exec_step_goto(action, at), local_frame, None)
      [] stype_l = "frame" -> SetsRet(exec_step_frame(action, at), local_frame)
      [] stype_l = "main_frame" ->
            SetsRet(exec_step_main_frame(action, at), local_frame)
      [] OTHER -> Unsupported(tolerate, local_frame, at)

\* lines 952-995: what follows the dispatch of nested action j, r being its
\* result and `start` the events of the iteration before the dispatch
AfterAction(actions, j, p, i, local_frame, ignore_error, before, at, start, r) ==
    IF r.exc = "none"
    THEN After(start \o r.tr,
               GroupActions(actions, j + 1, p, i, r.frame, ignore_error,
                            before \o start \o r.tr, at))
    ELSE IF GroupTolerates(get_key(actions[j], "ignore", <<>>, FALSE), ignore_error)
    THEN After(start \o r.tr \o <<Log("action_ignored", at \o <<i, j>>)>>,
               GroupActions(actions, j + 1, p, i, local_frame, ignore_error,
                            before \o start \o r.tr
                                \o <<Log("action_ignored", at \o <<i, j>>)>>, at))
    ELSE Raises(start \o r.tr, r.exc)

\* a loop in which a nested action without a kind is a failure
GroupActionsStrict(actions, j, p, i, local_frame, ignore_error, before, at) ==
    IF j > Len(actions) THEN Returns(<<>>)
    ELSE IF Falsy(get_key(actions[j], "type", <<>>, None))
    THEN IF get_key(actions[j], "ignore", <<>>, FALSE) \/ ignore_error
         THEN After(<<Log("action_skipped", at \o <<i, j>>)>>,
                    GroupActions(actions, j + 1, p, i, local_frame, ignore_error,
                                 Append(before, Log("action_skipped", at \o <<i, j>>)),
                                 at))
         ELSE Raises(<<>>, "RuntimeError")
    ELSE AfterAction(actions, j, p, i, local_frame, ignore_error, before, at,
                     <<Dispatch("action", at \o <<i, j>>, local_frame)>>,
                     NestedDispatch(
                         StypeL(get_key(actions[j], "type", <<>>, None)),
                         actions[j], local_frame, p,
                         get_key(actions[j], "ignore", <<>>, FALSE) \/ ignore_error,
                         Append(before, Dispatch("action", at \o <<i, j>>, local_frame)),
                         at \o <<i, j>>))

\* the loop of lines 936-995 from nested action j on, for parent p (index i)
GroupActions(actions, j, p, i, local_frame, ignore_error, before, at) ==
    IF j > Len(actions) THEN Returns(<<>>)
    ELSE IF Falsy(get_key(actions[j], "type", <<>>, None))
    THEN After(<<Log("action_skipped", at \o <<i, j>>)>>,
               GroupActions(actions, j + 1, p, i, local_frame, ignore_error,
                            Append(before, Log("action_skipped", at \o <<i, j>>)),
                            at))
    ELSE AfterAction(actions, j, p, i, local_frame, ignore_error, before, at,
                     <<Dispatch("action", at \o <<i, j>>, local_frame)>>,
                     NestedDispatch(
                         StypeL(get_key(actions[j], "type", <<>>, None)),
                         actions[j], local_frame, p,
                         get_key(actions[j], "ignore", <<>>, FALSE) \/ ignore_error,
                         Append(before, Dispatch("action", at \o <<i, j>>, local_frame)),
                         at \o <<i, j>>))

\* lines 923-932: the parent is waited for and scrolled to, errors swallowed
ParentCalls(p, at) ==
    << Ev("wait_for", at, p, Visible(p)), Ev("scroll_into_view", at, p, TRUE) >>

\* lines 922-995: what follows the iteration for the k-th selected parent,
\* r being its result
AfterParent(step, parents, indices, k, current_frame_, before, at, r) ==
    IF r.exc # "none" THEN Raises(r.tr, r.exc)
    ELSE After(r.tr, GroupParents(step, parents, indices, k + 1, current_frame_,
                                  before \o r.tr, at))

\* the loop of lines 922-995 from the k-th selected parent on
GroupParents(step, parents, indices, k, current_frame_, before, at) ==
    IF k > Len(indices) THEN Returns(<<>>)
    ELSE AfterParent(step, parents, indices, k, current_frame_, before, at,
             After(ParentCalls(Nth(parents, indices[k]), at),
                   GroupActions(get_key(step, "actions", <<"steps">>, <<>>), 1,
                                Nth(parents, indices[k]), indices[k],
                                current_frame_,
                                get_key(step, "ignore", <<>>, FALSE),
                                before \o ParentCalls(Nth(parents, indices[k]), at),
                                at)))

\* lines 878-997, parents being the parent locator
GroupBody(step, parents, current_frame_, before, at) ==
    OverParents(parents, ParentIndices(Count(parents), step),
                get_key(step, "actions", <<"steps">>, <<>>),
                get_key(step, "ignore", <<>>, FALSE),
                GroupParents(step, parents, ParentIndices(Count(parents), step), 1,
                             current_frame_,
                             Append(before, Ev("count", at, parents, TRUE)), at),
                at)

exec_step_group_action(step, current_frame_, parent, before, at) ==
    GroupBody(step, Resolve(step, "if_find_text_inside", current_frame_, parent),
              current_frame_, before, at)

\* --------------------------------------------------------------------- run
\* lines 1049-1079: the dispatch of one top-level step.  frame is
\* current_frame after the step.
RunDispatch(stype_l, step, frame, ignore_error, before, at) ==
    CASE stype_l = "goto" -> Sets(exec_step_goto(step, at), frame, None)
      [] stype_l = "click" -> Keeps(exec_step_click(step, frame, <<>>, at), frame)
      [] stype_l = "array" -> Keeps(exec_step_array(step, frame, <<>>, at), frame)
      [] stype_l = "group_action" ->
            Keeps(exec_step_group_action(step, frame, <<>>, before, at), frame)
      [] stype_l = "frame" -> SetsRet(exec_step_frame(step, at), frame)
      [] stype_l = "main_frame" -> SetsRet(exec_step_main_frame(step, at), frame)
      [] stype_l = "write" -> Keeps(exec_step_write(step, frame, <<>>, at), frame)
      [] stype_l = "use_last_tab" ->
            Keeps(exec_step_use_last_tab(step, before, at), frame)
      [] stype_l = "scroll" -> Keeps(exec_step_scroll(step, frame, <<>>, at), frame)
      [] stype_l = "download_from_link" ->
            Keeps(exec_step_download_from_link(step, frame, <<>>, at), frame)
      [] stype_l \in {"download_page", "save_page"} ->
            Keeps(exec_step_download_page(step, at), frame)
      [] OTHER -> Unsupported(ignore_error, frame, at)

\* a run loop whose handler swallows every failure
RunToleratesAlways(ignore_error) == TRUE
\* a run loop whose handler swallows none
RunToleratesNever(ignore_error) == FALSE

\* lines 1080-1087: whether the failure of a top-level step is swallowed
RunTolerates(ignore_error) == ignore_error

\* lines 1040-1045: a step without a kind
RunMissingType ==
    /\ status = "running"
    /\ idx <= Len(workflow)
    /\ Falsy(get_key(workflow[idx], "type", <<>>, None))
    /\ IF get_key(workflow[idx], "ignore", <<>>, FALSE)
       THEN /\ trace' = trace \o <<Dispatch("step", <<idx>>, current_frame), Log("step_ignored", <<idx>>)>>
            /\ idx' = idx + 1
            /\ status' = status
       ELSE /\ trace' = Append(trace, Dispatch("step", <<idx>>, current_frame))
            /\ idx' = idx
            /\ status' = "aborted"
    /\ UNCHANGED <<workflow, matches, current_frame, document, pc, exit_code,
                   call, result, coursera>>

\* a run loop that passes over the step after one that succeeded
RunStepEndSkipping(r, ignore_error) ==
    /\ trace' = trace \o <<Dispatch("step", <<idx>>, current_frame)>> \o r.tr
    /\ current_frame' = r.frame
    /\ idx' = IF r.exc = "none" THEN idx + 2 ELSE idx + 1
    /\ status' = status

\* a run loop that goes back to the page after a step it ignored
RunStepEndResetting(r, ignore_error) ==
    IF r.exc = "none"
    THEN /\ trace' = trace \o <<Dispatch("step", <<idx>>, current_frame)>> \o r.tr
         /\ current_frame' = r.frame
         /\ idx' = idx + 1
         /\ status' = status
    ELSE IF RunTolerates(ignore_error)
    THEN /\ trace' = trace \o <<Dispatch("step", <<idx>>, current_frame)>> \o r.tr
                           \o <<Log("step_ignored", <<idx>>)>>
         /\ current_frame' = None
         /\ idx' = idx + 1
         /\ status' = status
    ELSE /\ trace' = trace \o <<Dispatch("step", <<idx>>, current_frame)>> \o r.tr
                           \o <<Log("step_failed", <<idx>>)>>
         /\ current_frame' = current_frame
         /\ idx' = idx
         /\ status' = "aborted"

\* a run loop that gives a step it ignored a second try
RunStepEndRetrying(r, ignore_error) ==
    IF r.exc = "none"
    THEN /\ trace' = trace \o <<Dispatch("step", <<idx>>, current_frame)>> \o r.tr
         /\ current_frame' = r.frame
         /\ idx' = idx + 1
         /\ status' = status
    ELSE IF RunTolerates(ignore_error)
    THEN /\ trace' = trace \o <<Dispatch("step", <<idx>>, current_frame)>> \o r.tr
                           \o <<Log("step_ignored", <<idx>>)>>
         /\ current_frame' = current_frame
         /\ idx' = IF \E n \in 1..Len(trace) : trace[n].at = <<idx>>
                   THEN idx + 1 ELSE idx
         /\ status' = status
    ELSE /\ trace' = trace \o <<Dispatch("step", <<idx>>, current_frame)>> \o r.tr
                           \o <<Log("step_failed", <<idx>>)>>
         /\ current_frame' = current_frame
         /\ idx' = idx
         /\ status' = "aborted"

\* lines 1049-1087: how the iteration for step idx ends, r being the result
\* of the dispatch
RunStepEnd(r, ignore_error) ==
    IF r.exc = "none"
    THEN /\ trace' = trace \o <<Dispatch("step", <<idx>>, current_frame)>> \o r.tr
         /\ current_frame' = r.frame
         /\ idx' = idx + 1
         /\ status' = status
    ELSE IF RunTolerates(ignore_error)
    THEN /\ trace' = trace \o <<Dispatch("step", <<idx>>, current_frame)>> \o r.tr
                           \o <<Log("step_ignored", <<idx>>)>>
         /\ current_frame' = current_frame
         /\ idx' = idx + 1
         /\ status' = status
    ELSE /\ trace' = trace \o <<Dispatch("step", <<idx>>, current_frame)>> \o r.tr
                           \o <<Log("step_failed", <<idx>>)>>
         /\ current_frame' = current_frame
         /\ idx' = idx
         /\ status' = "aborted"

\* lines 1032-1087: one iteration of the loop over the workflow
RunStep ==
    /\ status = "running"
    /\ idx <= Len(workflow)
    /\ ~Falsy(get_key(workflow[idx], "type", <<>>, None))
    /\ RunStepEnd(RunDispatch(StypeL(get_key(workflow[idx], "type", <<>>, None)),
                              workflow[idx], current_frame,
                              get_key(workflow[idx], "ignore", <<>>, FALSE),
                              Append(trace, Dispatch("step", <<idx>>, current_frame)), <<idx>>),
                  get_key(workflow[idx], "ignore", <<>>, FALSE))
    /\ UNCHANGED <<workflow, matches, document, pc, exit_code, call, result, coursera>>

\* lines 1089-1090: the loop ran to its end
RunFinish ==
    /\ status = "running"
    /\ idx > Len(workflow)
    /\ status' = "completed"
    /\ trace' = Append(trace, Log("completed", <<>>))
    /\ UNCHANGED <<workflow, matches, idx, current_frame, document, pc, exit_code,
                   call, result, coursera>>

Next == RunMissingType \/ RunStep \/ RunFinish

\* ------------------------------------------------------ workflow documents
\* d with d[k] = v
With(d, k, v) == (k :> v) @@ d
Tol(step) == With(step, "ignore", TRUE)

Click(tag) == [type |-> "click", tag |-> tag]
Write(tag) == [type |-> "write", tag |-> tag, write |-> "hi"]
Scroll(tag) == [type |-> "scroll", tag |-> tag]
Goto(url) == [type |-> "goto", value |-> url]
Download(tag) == [type |-> "download_from_link", tag |-> tag]
Array(clicks) == [type |-> "array", tag |-> "li", click |-> clicks]
Group(actions) == [type |-> "group_action", tag |-> "li", actions |-> actions]
Cond(st, tag, alts) == [status |-> st, tag |-> tag, click |-> alts]
ClickIf(tag, cond) == [type |-> "click", tag |-> tag, if |-> cond]

Flag(step, b) == IF b THEN Tol(step) ELSE step

\* d groups inside each other, the innermost holding `inner`
RECURSIVE Nest(_, _)
\* array and group steps without nested steps: the list missing or empty,
\* over a selector that may match, with and without array_select_one
EmptySteps ==
    LET Bare == {[type |-> "array", tag |-> t] : t \in {"li", "none"}}
                \cup {[type |-> "array", tag |-> t, click |-> <<>>] :
                         t \in {"li", "none"}}
                \cup {[type |-> "group_action", tag |-> t] : t \in {"li", "none"}}
                \cup {[type |-> "group_action", tag |-> t, actions |-> <<>>] :
                         t \in {"li", "none"}}
    IN  Bare \cup {With(e, "array_select_one", n) : e \in Bare, n \in {0, 5}}

\* goto steps by the fields that may carry the URL
GotoSteps ==
    {[type |-> "goto", value |-> v, url |-> u] :
        v \in {"", None, "https://a/x"}, u \in {"", "https://b/y"}}
    \cup {[type |-> "goto", url |-> u] : u \in {"", None, "https://b/y"}}
    \cup {[type |-> "goto", value |-> v] : v \in {"", None, "https://a/x"}}
    \cup {[type |-> "goto", Value |-> "https://a/x"],
          [type |-> "goto", Value |-> "https://a/x", url |-> "https://b/y"],
          [type |-> "goto", VALUE |-> "", url |-> "https://b/y"]}

\* steps without a kind: `type` missing, empty or null
Kindless == {[tag |-> "btn"], [type |-> "", tag |-> "btn"], [type |-> None, tag |-> "btn"]}

Nest(d, inner) == IF d = 1 THEN Group(inner) ELSE Group(<<Nest(d - 1, inner)>>)

\* the steps the longest top-level workflows are made of
TopPool ==
    { Click("btn"), Click("none"), Tol(Click("none")),
      Goto("https://a/x"), Tol([type |-> "goto"]),
      Tol(Array(<<Click("btn"), Click("none")>>)),
      Tol(Group(<<Click("none"), Click("a")>>)),
      [tag |-> "btn"] }

\* further steps, for workflows of one or two steps
SidePool ==
    { Click("a"), Write("input"), Tol([type |-> "hover"]), [type |-> "hover"],
      [type |-> "frame", url |-> "checkout"], [type |-> "frame", name |-> "nope"],
      [type |-> "main_frame"], [type |-> "use_last_tab"],
      [type |-> "download_page", mode |-> "text", filename |-> "notes.txt"],
      Goto("bad://"), Tol([type |-> " Click ", tag |-> "btn"]),
      [type |-> "CLICK", tag |-> "btn"], Click("slow"), Tol(Click("slow")),
      Scroll("btn"), Download("a"), Array(<<Click("btn")>>),
      ClickIf("btn", Cond("found", "a", <<Click("a")>>)),
      ClickIf("btn", Cond("found", "none", <<Click("a")>>)) }

RECURSIVE SeqsUpTo(_, _)
\* the sequences over S of length 1..n
SeqsUpTo(S, n) ==
    IF n = 0 THEN {}
    ELSE LET shorter == SeqsUpTo(S, n - 1)
         IN  {<<x>> : x \in S} \cup {Append(w, x) : w \in shorter, x \in S}

Fails == {"none", "first", "hid", "dead"}

\* steps with nested lists: groups, arrays and conditions
NestedPool ==
    {Nest(d, <<Click("btn"), Click("a")>>) : d \in 1..MaxDepth}
    \cup {Flag(Group(<<Flag(Group(<<Flag(Click("none"), ga), Click("btn")>>), gi),
                       Click("btn")>>), go) : go \in BOOLEAN, gi \in BOOLEAN,
                                              ga \in BOOLEAN}
    \cup {Flag(Group(<<Flag(Click(t), a), Click("btn")>>), g) :
              t \in Fails, a \in BOOLEAN, g \in BOOLEAN}
    \cup {Flag(Group(<<Flag(n, a), Click("btn")>>), g) :
              n \in {[type |-> "goto"], [type |-> "hover"], [tag |-> "btn"],
                     [type |-> "main_frame"], [type |-> "frame", index |-> 5],
                     [type |-> " Click ", tag |-> "btn"],
                     [type |-> "CLICK", tag |-> "none"]},
              a \in BOOLEAN, g \in BOOLEAN}
    \cup {Flag(Group(<<Flag(Group(<<Flag([type |-> "hover"], ga), Click("btn")>>), gi),
                       Click("btn")>>), go) : go \in BOOLEAN, gi \in BOOLEAN,
                                              ga \in BOOLEAN}
    \cup {Flag(Group(<<Flag(Click("slow"), a), Click("btn")>>), g) :
              a \in BOOLEAN, g \in BOOLEAN}
    \cup {Array(<<Click("slow"), Click("btn")>>),
          ClickIf("btn", Cond("found", "a", <<Click("slow"), Click("b")>>))}
    \cup {Flag(Array(<<Flag(Click(t), c), Click("btn")>>), g) :
              t \in Fails, c \in BOOLEAN, g \in BOOLEAN}
    \cup {ClickIf("btn", Cond(st, t, alts)) :
              st \in {"found", "not_found"}, t \in {"a", "none"},
              alts \in {<<>>, <<[nondict |-> TRUE]>>, <<Click("a")>>,
                        <<Click("a"), Click("b")>>,
                        <<ClickIf("c", Cond("found", "a", <<Click("d")>>))>>}}
    \cup {Flag(ClickIf("btn", Cond(st, t, <<Click("a")>>)), g) :
              st \in {"Found", "absent", ""}, t \in {"a", "none"}, g \in BOOLEAN}
    \cup {Flag(Group(<<Flag(ClickIf("btn", Cond(st, "a", <<Click("a")>>)), a),
                       Click("btn")>>), g) :
              st \in {"Found", "", "not_found"}, a \in BOOLEAN, g \in BOOLEAN}
    \cup {Flag(e, g) : e \in EmptySteps, g \in BOOLEAN}
    \cup {Flag(Group(<<Flag(e, a), Click("btn")>>), g) :
              e \in {[type |-> "array", tag |-> "li"],
                     [type |-> "group_action", tag |-> "none", actions |-> <<>>]},
              a \in BOOLEAN, g \in BOOLEAN}
    \cup {Flag(e, g) : e \in GotoSteps, g \in BOOLEAN}
    \cup {Group(<<Flag(e, a), Click("btn")>>) : e \in GotoSteps, a \in BOOLEAN}
    \cup {With(Download("a"), "filename", f) : f \in {"v?.mp4", "  ", "", "a:b|c"}}
    \cup {Flag(n, g) : n \in Kindless, g \in BOOLEAN}
    \cup {Flag(Group(<<Click("btn"), Flag(n, a), Click("btn")>>), g) :
              n \in Kindless, a \in BOOLEAN, g \in BOOLEAN}
    \cup {Flag(Group(<<Flag(n, a), Flag(m, a)>>), g) :
              n \in Kindless, m \in Kindless, a \in BOOLEAN, g \in BOOLEAN}
    \cup {ClickIf("btn", [status |-> "found", tag |-> "a"]),
          ClickIf("btn", [tag |-> "a"]),
          Tol(ClickIf("btn", Cond("found", "a", <<Click("none")>>)))}
    \cup {Flag(With(s, "array_select_one", n), g) :
              s \in {Click("li"), Group(<<Click("btn")>>),
                     Array(<<Click("btn")>>), Write("li")},
              n \in {-1, 0, 1, 5}, g \in BOOLEAN}
    \cup {Flag(With(s, "array_select_one", n), g) :
              s \in {Scroll("li"), Download("a")}, n \in {0, 1}, g \in BOOLEAN}
    \cup {Flag(Group(<<With(Click("li"), "array_select_one", n), Click("btn")>>), g) :
              n \in {1, 5}, g \in BOOLEAN}
    \cup {With(Write("input"), "clear", FALSE), With(Write("ro"), "clear", FALSE),
          With(Write("input"), "clear", TRUE),
          [type |-> "write", tag |-> "input", write |-> "a b"],
          [type |-> "write", tag |-> "input", text |-> "ok"],
          [type |-> "write", tag |-> "input"],
          Group(<<With(Write("input"), "clear", FALSE), Click("btn")>>)}
    \cup {Flag(s, g) : s \in {Write(t) : t \in Fails \cup {"ro"}}
                             \cup {Scroll(t) : t \in Fails}
                             \cup {Download(t) : t \in Fails \cup {"a", "btn"}},
                       g \in BOOLEAN}

\* scroll steps with coordinates, alone and with fields that would fail if
\* an element were looked for
ScrollSteps ==
    {[type |-> "scroll", x |-> 0], [type |-> "scroll", y |-> 40],
     [type |-> "scroll", x |-> 7, y |-> 0],
     [type |-> "scroll", x |-> 7, tag |-> "none"],
     [type |-> "scroll", y |-> 40, tag |-> "hid", text |-> "absent"],
     [type |-> "scroll", x |-> 0, tag |-> "li", array_select_one |-> 5],
     [type |-> "scroll"], Tol([type |-> "scroll"])}

\* the same at top level after a frame step, and nested in a group
ScrollWorkflows ==
    {<<s>> : s \in ScrollSteps}
    \cup {<<[type |-> "frame", name |-> "pay"], s, Click("btn")>> : s \in ScrollSteps}
    \cup {<<Flag(Group(<<s, Click("btn")>>), g)>> : s \in ScrollSteps, g \in BOOLEAN}

\* groups whose nested actions change the frame
FramePool ==
    {Flag(Group(<<a, Click("btn"), b, Click("btn")>>), g) :
        a \in {[type |-> "frame", name |-> "pay"], [type |-> "main_frame"],
               [type |-> "frame", index |-> 5], [type |-> "goto"]},
        b \in {[type |-> "main_frame"], Goto("https://a/x"),
               [type |-> "frame", selector |-> "#f"],
               Group(<<[type |-> "frame", index |-> 0], Click("btn")>>)},
        g \in BOOLEAN}
    \cup {Group(<<[type |-> "frame", name |-> "pay"], x>>) :
              x \in {Write("input"), Scroll("btn"), Download("a"),
                     Array(<<Click("btn")>>),
                     ClickIf("btn", Cond("found", "a", <<Click("a")>>)),
                     ClickIf("btn", Cond("found", "none", <<Click("a")>>))}}

\* a dict with the key k when the one-element sequence v gives its value
Opt(d, k, v) == IF v = <<>> THEN d ELSE With(d, k, v[1])

\* frame steps naming any of the four ways to find the frame
FrameSteps ==
    {Opt(Opt(Opt(Opt([type |-> "frame"], "selector", s), "name", n), "url", u),
         "index", i) :
        s \in {<<>>, <<"#f">>},
        n \in {<<>>, <<"pay">>, <<"nope">>, <<"">>},
        u \in {<<>>, <<"checkout">>, <<"https">>, <<"zzz">>},
        i \in {<<>>, <<-1>>, <<0>>, <<1>>, <<2>>}}

\* goto and frame steps that fail, each in its own way
FailingFrameSteps ==
    {Goto("bad://"), [type |-> "goto"], [type |-> "goto", value |-> ""],
     [type |-> "frame", name |-> "nope"], [type |-> "frame", url |-> "zzz"],
     [type |-> "frame", index |-> 5], [type |-> "frame", index |-> -1],
     [type |-> "frame"]}

\* workflows around use_last_tab: a link that opens a tab or a button that
\* does not, then the step, then a step of each kind that uses the page
TabWorkflows ==
    {<<Click(t), [type |-> "use_last_tab"], x>> :
        t \in {"a", "btn"},
        x \in {Click("btn"), Click("a"), Goto("https://a/x"), Write("input"),
               [type |-> "frame", name |-> "pay"], [type |-> "frame", url |-> "checkout"],
               [type |-> "frame", index |-> 0], [type |-> "frame", selector |-> "#f"],
               [type |-> "scroll", x |-> 0, y |-> 10], Scroll("btn"), Download("a"),
               Array(<<Click("btn")>>), [type |-> "use_last_tab"],
               ClickIf("btn", Cond("found", "a", <<Click("a")>>)),
               Group(<<[type |-> "use_last_tab"], Click("a"),
                       [type |-> "use_last_tab"], Goto("https://a/x")>>)}}

Workflows ==
    SeqsUpTo(TopPool, MaxSteps)
    \cup TabWorkflows
    \cup {<<f, Flag(x, g), Click("btn")>> :
              f \in {[type |-> "frame", name |-> "pay"],
                     [type |-> "frame", selector |-> "#f"], [type |-> "main_frame"]},
              x \in FailingFrameSteps, g \in BOOLEAN}
    \cup ScrollWorkflows
    \cup {<<f, Click("btn")>> : f \in FrameSteps}
    \cup {<<Tol(f), Click("btn")>> : f \in FrameSteps}
    \cup {<<g>> : g \in FramePool}
    \cup {<<[type |-> "frame", url |-> "checkout"], g, Click("btn")>> : g \in FramePool}
    \cup SeqsUpTo(TopPool \cup SidePool, 2)
    \cup {<<g>> : g \in NestedPool}
    \cup {<<g, Click("btn")>> : g \in NestedPool}

\* appCoursera.py has not been started
NotRun == [idx |-> 1, current_frame |-> None, status |-> "idle", trace |-> <<>>]

Init ==
    /\ coursera = NotRun
    /\ workflow \in Workflows
    /\ matches \in 1..MaxMatch
    /\ idx = 1
    /\ current_frame = None
    /\ status = "running"
    /\ trace = <<>>
    /\ document = [kind |-> "array", value |-> workflow]
    /\ pc = "run"
    /\ exit_code = None
    /\ call = [fn |-> "none"]
    /\ result = <<>>

Spec == Init /\ [][Next]_vars

\* what each of RunMissingType, RunStep and RunFinish does to idx and status:
\* the loop moves to the next step, or the run ends.  Some action of Next is
\* enabled exactly while the run is under way.
Advance ==
    /\ status = "running"
    /\ status' \in {"running", "completed", "aborted"}
    /\ idx' \in {idx, idx + 1}
    /\ idx' # idx \/ status' # status

\* the run loop is a sequential program: while the run is under way the
\* iteration that is due, or the end of the loop, is taken (every call of
\* the surface returns or raises)
LiveSpec == Init /\ [][Next]_vars /\ WF_<<idx, status>>(Advance)

\* ------------------------------------------------------------ appCoursera.py
\* The second runner.  human_type, get_key, to_int_or_none,
\* normalize_class_selector, build_css_selector, wait_and_click,
\* switch_to_frame, exec_step_goto, exec_step_frame, exec_step_main_frame and
\* exec_step_use_last_tab have the text of appCourser2.py (timeouts and log
\* lines apart) and are the operators above; the executors that resolve a
\* selector and the dispatch of run differ and are translated here.

\* `if current_frame:` on None or a frame handle
FrameSet(current_frame_) == current_frame_ # None

\* a runner that resolves in the page whatever the frame is
coursera_root_page(current_frame_) == PageRoot

\* appCoursera.py lines 223-226 (and 342-345, 389-392, 465-468, 607-610):
\* current_frame.locator when a frame is set, else page.locator
coursera_root(current_frame_) ==
    IF FrameSet(current_frame_) THEN FrameRoot(current_frame_) ELSE PageRoot

\* the locator of a step or condition, filtered by the text under `textkey`
CourseraResolve(step, textkey, current_frame_) ==
    Filtered(Locator(coursera_root(current_frame_), SelectorOf(step)),
             get_key(step, textkey, <<>>, None))

\* appCoursera.py lines 203-243
coursera_check_condition(condition, current_frame_, at) ==
    ConditionEnd(get_key(condition, "status", <<>>, None),
                 CourseraResolve(condition, "text", current_frame_),
                 Count(CourseraResolve(condition, "text", current_frame_)), at)

\* appCoursera.py lines 331-369: the primary click
CourseraPrimaryClick(step, current_frame_, at) ==
    ExceptPWTimeout(
        wait_and_click(CourseraResolve(step, "text", current_frame_),
                       IndexOf(step), get_key(step, "ignore", <<>>, FALSE), at),
        get_key(step, "ignore", <<>>, FALSE), at)

RECURSIVE coursera_exec_step_click(_, _, _)
RECURSIVE CourseraAltClicks(_, _, _, _)

\* appCoursera.py lines 321-328: the alternate clicks from entry k on
CourseraAltClicks(alt_clicks, k, current_frame_, at) ==
    IF k > Len(alt_clicks) THEN Returns(<<>>)
    ELSE IF ~IsDict(alt_clicks[k])
         THEN CourseraAltClicks(alt_clicks, k + 1, current_frame_, at)
    ELSE Then(coursera_exec_step_click(alt_clicks[k], current_frame_,
                                       at \o <<Alt, k>>),
              CourseraAltClicks(alt_clicks, k + 1, current_frame_, at))

\* appCoursera.py lines 312-369, c being the result of check_condition
CourseraClickAfterCondition(step, condition, c, current_frame_, at) ==
    IF c.exc # "none" THEN Stmt(c)
    ELSE IF c.ret
    THEN After(c.tr, CourseraAltClicks(get_key(condition, "click", <<>>, <<>>), 1,
                                       current_frame_, at))
    ELSE After(c.tr, CourseraPrimaryClick(step, current_frame_, at))

\* appCoursera.py lines 308-369
CourseraClickBody(step, condition, current_frame_, at) ==
    IF DOMAIN condition # {}
    THEN CourseraClickAfterCondition(step, condition,
             coursera_check_condition(condition, current_frame_, at),
             current_frame_, at)
    ELSE CourseraPrimaryClick(step, current_frame_, at)

coursera_exec_step_click(step, current_frame_, at) ==
    CourseraClickBody(step, get_key(step, "if", <<>>, <<>>), current_frame_, at)

\* appCoursera.py lines 372-444
coursera_exec_step_write(step, current_frame_, at) ==
    WriteBody(get_key(step, "write", <<"value", "text">>, None),
              CourseraResolve(step, "text", current_frame_),
              IndexOf(step),
              get_key(step, "clear", <<>>, TRUE),
              get_key(step, "ignore", <<>>, FALSE), at)

\* appCoursera.py lines 447-549
coursera_exec_step_array(step, current_frame_, at) ==
    ArrayBody(step, CourseraResolve(step, "if_find_text_inside", current_frame_),
              get_key(step, "click", <<>>, <<>>), at)

\* appCoursera.py lines 575-653
coursera_exec_step_scroll(step, current_frame_, at) ==
    IF IsPositionScroll(step)
    THEN Returns(<<EvA("scrollTo", at, PageRoot, TRUE, ScrollToArg(step))>>)
    ELSE IF ~AnySelector(step) THEN Raises(<<>>, "RuntimeError")
    ELSE ScrollToElement(CourseraResolve(step, "text", current_frame_),
                         IndexOf(step), get_key(step, "ignore", <<>>, FALSE), at)

\* appCoursera.py lines 703-727: the dispatch of one step; every other kind
\* is unsupported
CourseraDispatch(stype_l, step, frame, ignore_error, before, at) ==
    CASE stype_l = "goto" -> Sets(exec_step_goto(step, at), frame, None)
      [] stype_l = "click" -> Keeps(coursera_exec_step_click(step, frame, at), frame)
      [] stype_l = "array" -> Keeps(coursera_exec_step_array(step, frame, at), frame)
      [] stype_l = "frame" -> SetsRet(exec_step_frame(step, at), frame)
      [] stype_l = "main_frame" -> SetsRet(exec_step_main_frame(step, at), frame)
      [] stype_l = "write" -> Keeps(coursera_exec_step_write(step, frame, at), frame)
      [] stype_l = "use_last_tab" ->
            Keeps(exec_step_use_last_tab(step, before, at), frame)
      [] stype_l = "scroll" -> Keeps(coursera_exec_step_scroll(step, frame, at), frame)
      [] OTHER -> Unsupported(ignore_error, frame, at)

\* appCoursera.py lines 728-735: the state of the run c after the dispatch
\* of its step ended as r
CourseraStepEnd(c, r, ignore_error) ==
    IF r.exc = "none"
    THEN [idx |-> c.idx + 1, current_frame |-> r.frame, status |-> c.status,
          trace |-> c.trace \o <<Dispatch("step", <<c.idx>>, c.current_frame)>>
                       \o r.tr]
    ELSE IF ignore_error
    THEN [idx |-> c.idx + 1, current_frame |-> c.current_frame,
          status |-> c.status,
          trace |-> c.trace \o <<Dispatch("step", <<c.idx>>, c.current_frame)>>
                       \o r.tr \o <<Log("step_ignored", <<c.idx>>)>>]
    ELSE [idx |-> c.idx, current_frame |-> c.current_frame, status |-> "aborted",
          trace |-> c.trace \o <<Dispatch("step", <<c.idx>>, c.current_frame)>>
                       \o r.tr \o <<Log("step_failed", <<c.idx>>)>>]

\* appCoursera.py lines 694-699: a step without a kind
CourseraMissingType ==
    /\ coursera.status = "running"
    /\ coursera.idx <= Len(workflow)
    /\ Falsy(get_key(workflow[coursera.idx], "type", <<>>, None))
    /\ coursera' =
          IF get_key(workflow[coursera.idx], "ignore", <<>>, FALSE)
          THEN [coursera EXCEPT
                   !.idx = @ + 1,
                   !.trace = @ \o <<Dispatch("step", <<coursera.idx>>,
                                             coursera.current_frame),
                                    Log("step_ignored", <<coursera.idx>>)>>]
          ELSE [coursera EXCEPT
                   !.status = "aborted",
                   !.trace = Append(@, Dispatch("step", <<coursera.idx>>,
                                                coursera.current_frame))]
    /\ UNCHANGED <<workflow, matches, idx, current_frame, status, trace,
                   document, pc, exit_code, call, result>>

\* appCoursera.py lines 686-735: one iteration of the loop over the workflow
CourseraStep ==
    /\ coursera.status = "running"
    /\ coursera.idx <= Len(workflow)
    /\ ~Falsy(get_key(workflow[coursera.idx], "type", <<>>, None))
    /\ coursera' =
          CourseraStepEnd(
              coursera,
              CourseraDispatch(
                  StypeL(get_key(workflow[coursera.idx], "type", <<>>, None)),
                  workflow[coursera.idx], coursera.current_frame,
                  get_key(workflow[coursera.idx], "ignore", <<>>, FALSE),
                  Append(coursera.trace,
                         Dispatch("step", <<coursera.idx>>, coursera.current_frame)),
                  <<coursera.idx>>),
              get_key(workflow[coursera.idx], "ignore", <<>>, FALSE))
    /\ UNCHANGED <<workflow, matches, idx, current_frame, status, trace,
                   document, pc, exit_code, call, result>>

\* appCoursera.py lines 737-738: the loop ran to its end
CourseraFinish ==
    /\ coursera.status = "running"
    /\ coursera.idx > Len(workflow)
    /\ coursera' = [coursera EXCEPT !.status = "completed",
                                    !.trace = Append(@, Log("completed", <<>>))]
    /\ UNCHANGED <<workflow, matches, idx, current_frame, status, trace,
                   document, pc, exit_code, call, result>>

\* the kinds both runners dispatch
CommonKinds ==
    {"goto", "click", "array", "frame", "main_frame", "write", "use_last_tab",
     "scroll"}

\* the workflows of those kinds (a step may also lack its kind)
CommonWorkflows ==
    {w \in Workflows :
        \A k \in 1..Len(w) :
            \/ Falsy(get_key(w[k], "type", <<>>, None))
            \/ StypeL(get_key(w[k], "type", <<>>, None)) \in CommonKinds}

\* both runners are started on the same workflow and the same page
BothInit ==
    /\ workflow \in CommonWorkflows
    /\ matches \in 1..MaxMatch
    /\ idx = 1
    /\ current_frame = None
    /\ status = "running"
    /\ trace = <<>>
    /\ document = [kind |-> "array", value |-> workflow]
    /\ pc = "run"
    /\ exit_code = None
    /\ call = [fn |-> "none"]
    /\ result = <<>>
    /\ coursera = [NotRun EXCEPT !.status = "running"]

BothNext ==
    \/ RunMissingType
    \/ RunStep
    \/ RunFinish
    \/ CourseraMissingType
    \/ CourseraStep
    \/ CourseraFinish

\* the two runners side by side, each at its own pace
BothSpec == BothInit /\ [][BothNext]_vars

\* -------------------------------------------------------------------- main
\* lines 1109-1110: open() and json.load() give a value
Parses(doc) == doc.kind \notin {"missing", "unparseable"}

\* a load that takes any JSON value for a workflow
IsAnything(doc) == TRUE

\* line 1111: isinstance(wf, list)
IsList(doc) == doc.kind = "array"

\* lines 1108-1117: the document is read; run() is entered with it, or the
\* process exits with 1
MainLoad ==
    /\ pc = "load"
    /\ IF Parses(document) /\ IsList(document)
       THEN /\ pc' = "run"
            /\ workflow' = document.value
            /\ status' = "running"
            /\ exit_code' = exit_code
       ELSE /\ pc' = "exited"
            /\ exit_code' = 1
            /\ UNCHANGED <<workflow, status>>
    /\ UNCHANGED <<matches, idx, current_frame, trace, document, call, result, coursera>>

\* an exit that reports the loop's outcome alone
ExitCodeOfLoop(run_status, line) == IF run_status = "aborted" THEN 1 ELSE 0

\* lines 1092-1093 and 1119-1124: an exception leaves run() when the loop
\* aborted or when input() raised (EOFError: nothing to read on stdin), and
\* main() turns it into sys.exit(1); otherwise main() returns
ExitCode(run_status, line) ==
    IF run_status = "aborted" \/ line = "eof" THEN 1 ELSE 0

\* the end of run(): the closing prompt of the finally block, then main()'s
\* handler.  line is what input() meets on stdin.
MainExit ==
    /\ pc = "run"
    /\ status \in {"completed", "aborted"}
    /\ \E line \in {"line", "eof"} :
          /\ trace' = Append(trace, EvA("input", <<>>, NoLoc, line = "line", line))
          /\ exit_code' = ExitCode(status, line)
    /\ pc' = "exited"
    /\ UNCHANGED <<workflow, matches, idx, current_frame, status, document,
                   call, result, coursera>>

MainNext == MainLoad \/ RunMissingType \/ RunStep \/ RunFinish \/ MainExit

\* what the file may hold: no file, text that is not JSON, a JSON value
\* that is not an array ({} , "", 0), or an array of steps
Documents ==
    {[kind |-> k, value |-> <<>>] :
        k \in {"missing", "unparseable", "object", "string", "number"}}
    \cup {[kind |-> "array", value |-> w] :
              w \in {<<>>} \cup SeqsUpTo(TopPool \cup SidePool, 2)
                     \cup {<<g>> : g \in NestedPool}}

\* the process starts: nothing of run() exists yet
MainInit ==
    /\ coursera = NotRun
    /\ document \in Documents
    /\ matches \in 1..MaxMatch
    /\ pc = "load"
    /\ exit_code = None
    /\ workflow = <<>>
    /\ idx = 1
    /\ current_frame = None
    /\ status = "idle"
    /\ trace = <<>>
    /\ call = [fn |-> "none"]
    /\ result = <<>>

MainSpec == MainInit /\ [][MainNext]_vars

\* ---------------------------------------------------------- the helpers
\* the arguments build_css_selector is applied to
BuildCalls ==
    {[fn |-> "build_css_selector", tag |-> t, cls |-> c, attr |-> a, value |-> v] :
        t \in {None, "", "div", " div ", "  "},
        c \in {None, "", "a", "a b", " a  b ", ".a", ".a.b", " .a .b", "  "},
        a \in {None, "", "data-x"},
        v \in {None, "", "1"}}

\* the keys of the dicts handed to get_key
LookupKeys == {"title", "Title", "TITLE", "name", "heading"}

\* the key lists of those dicts: up to MaxKeys different keys, in any order
KeyLists ==
    {ks \in UNION {[1..n -> LookupKeys] : n \in 0..MaxKeys} :
        \A a \in 1..Len(ks) : \A b \in 1..Len(ks) : ks[a] = ks[b] => a = b}

\* the dict with the keys ks; v says which values are None or empty
DictOf(ks, v) ==
    [k \in {ks[n] : n \in 1..Len(ks)} |-> IF v[k] = "own" THEN "v:" \o k ELSE v[k]]

\* the arguments get_key is applied to
GetKeyCalls ==
    {[fn |-> "get_key", keys |-> ks, d |-> DictOf(ks, v), key |-> "title",
      alts |-> al, default |-> "dflt"] :
        ks \in KeyLists, v \in [LookupKeys -> {"own", None, ""}],
        al \in {<<>>, <<"name", "heading">>, <<"heading", "name">>}}

\* the class values handed to normalize_class_selector
NormalizeCalls ==
    {[fn |-> "normalize_class_selector", cls |-> c] :
        c \in {None, "", "a", "a b", " a ", ".", ". ", ".a", ".a ", ".a  ",
               ".a.b", ".a .b", ".a  .b ", ".a b", " .a", " .a .b ", "  "}}

\* file names: a step's filename, or what a download or a page suggests
FileNames ==
    {None, "", "  ", "v.mp4", " v.mp4 ", "a/b.mp4", "v?.mp4", " ? ", "a:b|c",
     "\\x\"y", "<*>", "page.html", "A.HTML", "notes.txt", "a.htm", ".txt",
     "x .txt", "_"}

\* the calls of make_safe_filename, with the defaults and extensions in use
SafeFilenameCalls ==
    {[fn |-> "make_safe_filename", name |-> n, default |-> d, ext |-> x] :
        n \in FileNames, d \in {"download", "page"}, x \in {"", ".html", ".txt"}}

\* the names download_from_link chooses between
SafeNameCalls ==
    {[fn |-> "safe_name", filename |-> f, suggested |-> s] :
        f \in FileNames, s \in FileNames \ {None}}

\* the calls of wait_and_click: the selector and text filter of the locator
\* it is given, the index and the flag
WaitAndClickCalls ==
    {[fn |-> "wait_and_click", sel |-> s, text |-> t, index |-> i,
      ignore_error |-> g] :
        s \in {"none", "li", "btn", "hid", "dead", "a", "slow"},
        t \in {"", "absent"},
        i \in (-1)..MaxMatch,
        g \in BOOLEAN}

\* the locator of such a call
LocOf(c) == Filtered(Locator(PageRoot, c.sel), c.text)

HelperCalls ==
    BuildCalls \cup GetKeyCalls \cup NormalizeCalls \cup SafeFilenameCalls
        \cup SafeNameCalls \cup WaitAndClickCalls

\* a helper is about to be called; nothing of main() or run() exists
PureInit ==
    /\ coursera = NotRun
    /\ call \in HelperCalls
    /\ result = <<>>
    /\ workflow = <<>>
    /\ matches \in IF call.fn = "wait_and_click" THEN 1..MaxMatch ELSE {1}
    /\ idx = 1
    /\ current_frame = None
    /\ status = "idle"
    /\ trace = <<>>
    /\ document = [kind |-> "missing", value |-> <<>>]
    /\ pc = "idle"
    /\ exit_code = None

\* build_css_selector(tag, cls, attr, value) returns
CallBuildCssSelector ==
    /\ call.fn = "build_css_selector"
    /\ result = <<>>
    /\ result' = <<build_css_selector(call.tag, call.cls, call.attr, call.value)>>
    /\ UNCHANGED <<workflow, matches, idx, current_frame, status, trace,
                   document, pc, exit_code, call, coursera>>

\* get_key(d, key, *alts, default=default) returns
CallGetKey ==
    /\ call.fn = "get_key"
    /\ result = <<>>
    /\ result' = <<get_key_in(call.keys, call.d, call.key, call.alts, call.default)>>
    /\ UNCHANGED <<workflow, matches, idx, current_frame, status, trace,
                   document, pc, exit_code, call, coursera>>

\* normalize_class_selector(cls) returns
CallNormalizeClassSelector ==
    /\ call.fn = "normalize_class_selector"
    /\ result = <<>>
    /\ result' = <<normalize_class_selector(call.cls)>>
    /\ UNCHANGED <<workflow, matches, idx, current_frame, status, trace,
                   document, pc, exit_code, call, coursera>>

\* make_safe_filename(name, default, ext) returns; called again, it is
\* handed its own result
CallMakeSafeFilename ==
    /\ call.fn = "make_safe_filename"
    /\ Len(result) < 2
    /\ result' = Append(result,
                        make_safe_filename(IF result = <<>> THEN call.name
                                           ELSE result[1],
                                           call.default, call.ext))
    /\ UNCHANGED <<workflow, matches, idx, current_frame, status, trace,
                   document, pc, exit_code, call, coursera>>

\* lines 760-763 choose the name to save under
CallSafeName ==
    /\ call.fn = "safe_name"
    /\ result = <<>>
    /\ result' = <<safe_name(call.filename, call.suggested)>>
    /\ UNCHANGED <<workflow, matches, idx, current_frame, status, trace,
                   document, pc, exit_code, call, coursera>>

\* wait_and_click(loc, index, ignore_error) returns or raises, and then the
\* caller's try statement (lines 377-393) takes what it did
CallWaitAndClick ==
    /\ call.fn = "wait_and_click"
    /\ Len(result) < 2
    /\ result' =
          IF result = <<>>
          THEN <<wait_and_click(LocOf(call), call.index, call.ignore_error, <<1>>)>>
          ELSE Append(result, ExceptPWTimeout(result[1], call.ignore_error, <<1>>))
    /\ UNCHANGED <<workflow, matches, idx, current_frame, status, trace,
                   document, pc, exit_code, call, coursera>>

PureNext ==
    \/ CallWaitAndClick
    \/ CallBuildCssSelector
    \/ CallGetKey
    \/ CallNormalizeClassSelector
    \/ CallMakeSafeFilename
    \/ CallSafeName

PureSpec == PureInit /\ [][PureNext]_vars

\* ------------------------------------------------------ reading the trace
\* the tolerance flag of a step
IgnoreOf(step) == get_key(step, "ignore", <<>>, FALSE)
\* the kind of a step, as the dispatch reads it
KindOf(step) == StypeL(get_key(step, "type", <<>>, None))

\* s is a prefix of t
IsPrefix(s, t) == Len(s) <= Len(t) /\ SubSeq(t, 1, Len(s)) = s
\* the path of the step that encloses the step at path `at`
Outer(at) == SubSeq(at, 1, Len(at) - 2)

\* entry j of the list nested in step s: an alternate click of its condition
\* (i = Alt), a child click of an array, a nested action of a group
Child(s, i, j) ==
    IF i = Alt THEN get_key(get_key(s, "if", <<>>, <<>>), "click", <<>>, <<>>)[j]
    ELSE IF KindOf(s) = "array" THEN get_key(s, "click", <<>>, <<>>)[j]
    ELSE get_key(s, "actions", <<"steps">>, <<>>)[j]

RECURSIVE StepAt(_)
\* the step of the workflow at path `at`
StepAt(at) ==
    IF Len(at) = 1 THEN workflow[at[1]]
    ELSE Child(StepAt(Outer(at)), at[Len(at) - 1], at[Len(at)])

\* the log lines of the handlers: a failure swallowed by a group, swallowed
\* by the run loop, or ending the run
FailureLogs == {"action_ignored", "step_ignored", "step_failed"}
\* the calls that change the page
Mutating(e) ==
    \/ e.op \in {"click", "clear", "type", "goto"} /\ e.ok
    \/ e.op \in {"scroll_into_view", "scrollTo"}

\* ---------------------------------------------------------------- C1
\* the top-level step k failed and the run loop's handler saw it
RunFailureAt(n) == trace[n].op \in {"step_ignored", "step_failed"}

C1_Stopped ==
    /\ \A n \in 1..Len(trace) :
          RunFailureAt(n) /\ ~IgnoreOf(workflow[trace[n].at[1]])
          => /\ n = Len(trace)
             /\ status = "aborted"
             /\ idx = trace[n].at[1]
    /\ status = "aborted"
       => \A n \in 1..Len(trace) : trace[n].at # <<>> => trace[n].at[1] <= idx

C1_Step ==
    /\ IsPrefix(trace, trace')
    /\ status = "aborted" => trace' = trace /\ idx' = idx

\* C1: once a top-level step whose ignore flag is false has failed, the
\* failure is the last entry of the trace for ever: no later top-level step
\* is dispatched and no further call reaches the automation surface; and
\* the trace only ever grows, so what earlier steps did is never undone.
C1_FatalFailureStopsRun == [](C1_Stopped) /\ [][C1_Step]_vars

\* a run that performed a click, then aborted on a later step, with steps
\* of the workflow still to come
C1_Witness ==
    /\ status = "aborted"
    /\ 1 < idx /\ idx < Len(workflow)
    /\ trace[Len(trace)].op = "step_failed"
    /\ \E n \in 1..Len(trace) : trace[n].op = "click" /\ trace[n].ok

\* ------------------------------------------------- failures in the trace
\* the index the step at path `at` selects with: a child click of an array
\* is always clicked at index 0 (line 555)
IndexAt(at) ==
    IF Len(at) > 1 /\ at[Len(at) - 1] # Alt /\ KindOf(StepAt(Outer(at))) = "array"
    THEN 0 ELSE IndexOf(StepAt(at))

\* entry n of the trace is a count that found nothing
ZeroMatch(n) == trace[n].op = "count" /\ Count(trace[n].loc) = 0
\* entry n is a count after which the step cannot resolve its element:
\* nothing found, or the index out of range
ResolutionFailure(n) ==
    trace[n].op = "count" /\ OutOfRange(Count(trace[n].loc), IndexAt(trace[n].at))

\* the paths of the steps that enclose the step at path `at`
Ancestors(at) == {SubSeq(at, 1, l) : l \in {x \in 1..(Len(at) - 2) : x % 2 = 1}}
\* the step at path `at` is a top-level step or a nested action of groups
\* all the way up
InGroups(at) ==
    \A l \in {x \in 1..(Len(at) - 2) : x % 2 = 1} :
        at[l + 1] # Alt /\ KindOf(StepAt(SubSeq(at, 1, l))) = "group_action"

\* path q is an entry later than the step at path p, in p's own list or in
\* a list that encloses it
ComesAfter(q, p) ==
    \E l \in {x \in 1..Len(p) : x % 2 = 1} :
        /\ Len(q) >= l
        /\ SubSeq(q, 1, l - 2) = SubSeq(p, 1, l - 2)
        /\ q[l] > p[l]

Dispatches == {"step", "action", "action_skipped"}

\* ---------------------------------------------------------------- C2
\* C2 as the spec states it: after a step, top-level or nested in groups,
\* whose own ignore flag is false found nothing, no later entry of its own
\* list and no later entry of an enclosing list is dispatched.
C2_AsStated ==
    \A n \in 1..Len(trace) :
        ZeroMatch(n) /\ InGroups(trace[n].at) /\ ~IgnoreOf(StepAt(trace[n].at))
        => \A m \in (n + 1)..Len(trace) :
              trace[m].op \in Dispatches => ~ComesAfter(trace[m].at, trace[n].at)

\* C2, amended: a step, top-level or nested in groups, that found nothing
\* aborts the run when its own ignore flag and the flag of every enclosing
\* step are false: the failure ends the run, and nothing is dispatched or
\* called after it.
C2_UnprotectedFailureAborts ==
    \A n \in 1..Len(trace) :
        /\ ZeroMatch(n)
        /\ InGroups(trace[n].at)
        /\ ~IgnoreOf(StepAt(trace[n].at))
        /\ \A q \in Ancestors(trace[n].at) : ~IgnoreOf(StepAt(q))
        => /\ status = "aborted"
           /\ idx = trace[n].at[1]
           /\ Len(trace) = n + 1
           /\ trace[n + 1] = Log("step_failed", <<idx>>)

\* two groups deep, a click found nothing, nothing tolerates it, and the
\* run aborted with entries of both lists and of the workflow still to come
C2_Witness ==
    /\ status = "aborted"
    /\ Len(workflow) = 2
    /\ \E n \in 1..Len(trace) :
          /\ ZeroMatch(n)
          /\ Len(trace[n].at) = 5
          /\ InGroups(trace[n].at)
          /\ Len(get_key(StepAt(Outer(trace[n].at)), "actions", <<>>, <<>>)) = 2

\* ---------------------------------------------------------------- C3
IsStepLine(e) == e.op = "step"
\* the top-level dispatches after entry n of the trace, in order
StepsAfter(n) == SelectSeq(SubSeq(trace, n + 1, Len(trace)), IsStepLine)

\* C3: after a top-level step whose ignore flag is true found nothing, the
\* run is not aborted by it; the top-level steps after it are dispatched
\* one by one in document order, none skipped and none repeated; a run that
\* completed dispatched them all; and once they are all dispatched and the
\* run was not aborted, it can finish with success.
C3_ToleratedMissContinues ==
    \A n \in 1..Len(trace) :
        ZeroMatch(n) /\ Len(trace[n].at) = 1 /\ IgnoreOf(workflow[trace[n].at[1]])
        => /\ status = "aborted" => idx > trace[n].at[1]
           /\ \A m \in 1..Len(StepsAfter(n)) :
                 StepsAfter(n)[m].at = <<trace[n].at[1] + m>>
           /\ Len(StepsAfter(n)) =
                 (CASE status = "running" -> idx - 1
                    [] status = "aborted" -> idx
                    [] status = "completed" -> Len(workflow)) - trace[n].at[1]
           /\ status = "running" /\ idx > Len(workflow) => ENABLED RunFinish

\* a tolerated miss in the first step of a run that then dispatched two more
\* steps and completed
C3_Witness ==
    /\ status = "completed"
    /\ Len(workflow) = 3
    /\ \E n \in 1..Len(trace) :
          /\ ZeroMatch(n) /\ trace[n].at = <<1>> /\ IgnoreOf(workflow[1])
          /\ Len(StepsAfter(n)) = 2

\* ---------------------------------------------------------------- C4
\* the log lines of a tolerated failure: by the executor itself, by the
\* enclosing group, by the run loop
ToleratedLogs == {"warning", "action_ignored", "step_ignored"}

\* C4 as the spec states it: a step whose failure is tolerated has made no
\* call that changes the page.
C4_AsStated ==
    \A n \in 1..Len(trace) :
        trace[n].op \in ToleratedLogs
        => \A m \in 1..n : IsPrefix(trace[n].at, trace[m].at) => ~Mutating(trace[m])

\* C4, amended: a step that fails to resolve its own selector (nothing
\* found, or the index out of range) makes no call that changes the page,
\* and when its own ignore flag is true the failure is logged as a warning
\* and nothing else; the calls made before any other tolerated failure stay.
C4_ResolutionFailureHasNoEffect ==
    \A n \in 1..Len(trace) :
        ResolutionFailure(n)
        => /\ \A m \in 1..Len(trace) :
                 IsPrefix(trace[n].at, trace[m].at) => ~Mutating(trace[m])
           /\ IgnoreOf(StepAt(trace[n].at))
              => /\ n < Len(trace)
                 /\ trace[n + 1] = Log("warning", trace[n].at)
                 /\ \A m \in 1..Len(trace) :
                       trace[m].at = trace[n].at => m \in {n - 1, n, n + 1}

\* a tolerated resolution failure between calls that change the page
C4_Witness ==
    \E n \in 2..Len(trace) :
        /\ ResolutionFailure(n)
        /\ n < Len(trace)
        /\ trace[n + 1].op = "warning"
        /\ \E m \in 1..(n - 1) : Mutating(trace[m])
        /\ \E m \in (n + 2)..Len(trace) : Mutating(trace[m])

\* ---------------------------------------------------------------- C5
\* entry n dispatches a goto that has neither a value nor a url
MissingUrlGoto(n) ==
    /\ trace[n].op \in {"step", "action"}
    /\ KindOf(StepAt(trace[n].at)) = "goto"
    /\ Falsy(get_key(StepAt(trace[n].at), "value", <<"url">>, None))

\* C5 as the spec states it: a goto without a URL aborts the run whatever
\* the ignore flags are.
C5_AsStated ==
    \A n \in 1..Len(trace) :
        MissingUrlGoto(n) => status = "aborted" /\ idx = trace[n].at[1]

\* C5, amended: a goto without a URL navigates nowhere and fails at once.
\* At top level the failure aborts the run when the step's ignore flag is
\* false and is logged and passed over when it is true; nested in a group it
\* is swallowed when the action's or the group's flag is true and leaves the
\* group otherwise.
C5_MissingUrlFollowsTolerance ==
    \A n \in 1..Len(trace) :
        MissingUrlGoto(n)
        => /\ n < Len(trace)
           /\ IF Len(trace[n].at) = 1
              THEN IF IgnoreOf(StepAt(trace[n].at))
                   THEN /\ trace[n + 1] = Log("step_ignored", trace[n].at)
                        /\ idx > trace[n].at[1]
                   ELSE /\ trace[n + 1] = Log("step_failed", trace[n].at)
                        /\ Len(trace) = n + 1
                        /\ status = "aborted"
                        /\ idx = trace[n].at[1]
              ELSE IF IgnoreOf(StepAt(trace[n].at))
                      \/ IgnoreOf(StepAt(Outer(trace[n].at)))
                   THEN trace[n + 1] = Log("action_ignored", trace[n].at)
                   ELSE /\ trace[n + 1].op \in FailureLogs
                        /\ IsPrefix(trace[n + 1].at, Outer(trace[n].at))

\* a top-level goto without a URL, its flag true, in a run that went on to
\* dispatch another step and completed
C5_Witness ==
    /\ status = "completed"
    /\ \E n \in 1..Len(trace) :
          /\ MissingUrlGoto(n)
          /\ Len(trace[n].at) = 1
          /\ \E m \in (n + 1)..Len(trace) : trace[m].op = "click" /\ trace[m].ok

\* ---------------------------------------------------------------- C6
\* entry n is the count of a condition that evaluates without error
ConditionEvaluated(n) ==
    /\ trace[n].op = "cond_count"
    /\ get_key(get_key(StepAt(trace[n].at), "if", <<>>, <<>>), "status", <<>>, None)
          \in {"found", "not_found"}
\* whether that condition holds
ConditionHolds(n) ==
    (get_key(get_key(StepAt(trace[n].at), "if", <<>>, <<>>), "status", <<>>, None)
        = "found") <=> (Count(trace[n].loc) > 0)
\* after entry n, the alternate list of the step resolved a click
AlternateResolved(n) ==
    \E m \in (n + 1)..Len(trace) :
        /\ IsPrefix(trace[n].at \o <<Alt>>, trace[m].at)
        /\ trace[m].op \in {"count", "cond_count"}
\* after entry n, the step resolved its primary click
PrimaryResolved(n) ==
    \E m \in (n + 1)..Len(trace) : trace[m].at = trace[n].at /\ trace[m].op = "count"

\* C6 as the spec states it: a click whose condition evaluates without
\* error resolves a click on exactly one path: the alternate list when the
\* condition holds, the primary click when it does not.
C6_ExactlyOnePath ==
    \A n \in 1..Len(trace) :
        ConditionEvaluated(n)
        => IF ConditionHolds(n)
           THEN AlternateResolved(n) /\ ~PrimaryResolved(n)
           ELSE PrimaryResolved(n) /\ ~AlternateResolved(n)

\* ------------------------------------------------------ loops in the trace
\* the last entry of the trace, from entry n on, that belongs to the step
\* dispatched at entry n or to a step nested in it
SubtreeEnd(n) ==
    CHOOSE m \in n..Len(trace) :
        /\ \A x \in n..m : IsPrefix(trace[n].at, trace[x].at)
        /\ m = Len(trace) \/ ~IsPrefix(trace[n].at, trace[m + 1].at)

\* the parent locator of the group or array at path g: the one it counted
ParentsOf(g) ==
    trace[CHOOSE x \in 1..Len(trace) : trace[x].op = "count" /\ trace[x].at = g].loc

\* the group or array at path g has a parent after the one of index i
MoreParents(g, i) ==
    /\ "array_select_one" \notin DOMAIN StepAt(g)
    /\ i + 1 < Count(ParentsOf(g))

\* the list nested in the group or array at path g
ListOf(g) ==
    IF KindOf(StepAt(g)) = "array" THEN get_key(StepAt(g), "click", <<>>, <<>>)
    ELSE get_key(StepAt(g), "actions", <<"steps">>, <<>>)

\* after entry m, the last of nested action p, the group goes on: with the
\* next action of the same parent, else with the next parent
GroupGoesOn(m, p) ==
    IF p[Len(p)] < Len(ListOf(Outer(p)))
    THEN /\ m < Len(trace)
         /\ trace[m + 1].op \in {"action", "action_skipped"}
         /\ trace[m + 1].at = Outer(p) \o <<p[Len(p) - 1], p[Len(p)] + 1>>
    ELSE MoreParents(Outer(p), p[Len(p) - 1])
         => /\ m < Len(trace)
            /\ trace[m + 1].op = "wait_for"
            /\ trace[m + 1].at = Outer(p)
            /\ trace[m + 1].loc = Nth(ParentsOf(Outer(p)), p[Len(p) - 1] + 1)

\* the nested action dispatched at entry n failed and its group swallowed it
SwallowedHere(n) ==
    /\ SubtreeEnd(n) > n
    /\ trace[SubtreeEnd(n)] = Log("action_ignored", trace[n].at)
\* the nested action dispatched at entry n failed and the failure left its group
LeftGroup(n) ==
    /\ SubtreeEnd(n) < Len(trace)
    /\ trace[SubtreeEnd(n) + 1].op \in FailureLogs
    /\ IsPrefix(trace[SubtreeEnd(n) + 1].at, Outer(trace[n].at))

\* ---------------------------------------------------------------- C7
\* C7: when a nested action of a group fails, the group swallows the failure
\* exactly when the action's ignore flag or the group's is true, and then
\* goes on with the next action of the same parent, then the next parents;
\* otherwise the failure leaves the group, and the group dispatches and
\* calls nothing more.
C7_GroupSwallowsByEitherFlag ==
    \A n \in 1..Len(trace) :
        trace[n].op = "action"
        => /\ SwallowedHere(n)
              => /\ IgnoreOf(StepAt(trace[n].at))
                    \/ IgnoreOf(StepAt(Outer(trace[n].at)))
                 /\ GroupGoesOn(SubtreeEnd(n), trace[n].at)
           /\ LeftGroup(n)
              => /\ ~IgnoreOf(StepAt(trace[n].at))
                 /\ ~IgnoreOf(StepAt(Outer(trace[n].at)))
                 /\ \A x \in (SubtreeEnd(n) + 1)..Len(trace) :
                       IsPrefix(Outer(trace[n].at), trace[x].at)
                       => trace[x].op \in FailureLogs

\* a nested action whose own flag is false failed, the group's flag
\* swallowed it, and the next action of the same parent clicked
C7_Witness ==
    \E n \in 1..Len(trace) :
        /\ trace[n].op = "action"
        /\ SwallowedHere(n)
        /\ ~IgnoreOf(StepAt(trace[n].at))
        /\ \E m \in (SubtreeEnd(n) + 1)..Len(trace) :
              /\ trace[m].op = "click" /\ trace[m].ok
              /\ Outer(trace[m].at) = Outer(trace[n].at)
              /\ trace[m].at[Len(trace[m].at)] = trace[n].at[Len(trace[n].at)] + 1

\* ---------------------------------------------------------------- C8
\* a handler sits at path q: the run loop's for a top-level step, a group's
\* for a nested action; it swallows by the flags it reads
Caught(q) ==
    IF Len(q) = 1 THEN IgnoreOf(StepAt(q))
    ELSE /\ q[Len(q) - 1] # Alt
         /\ KindOf(StepAt(Outer(q))) = "group_action"
         /\ IgnoreOf(StepAt(q)) \/ IgnoreOf(StepAt(Outer(q)))

\* the paths of the step at p and of the steps that enclose it
SelfAndAncestors(p) == Ancestors(p) \cup {p}
\* the nearest handler that swallows a failure raised by the step at path p
Catcher(p) ==
    CHOOSE q \in SelfAndAncestors(p) :
        /\ Caught(q)
        /\ \A o \in SelfAndAncestors(p) : Caught(o) => Len(o) <= Len(q)

\* C8 as the spec states it: when a nested step whose own flag is false
\* cannot resolve its element and the flag of some enclosing step is true,
\* the next entry of its own list and the next parent of the enclosing
\* group or array are still executed.
C8_AsStated ==
    \A n \in 1..Len(trace) :
        /\ ResolutionFailure(n)
        /\ Len(trace[n].at) > 1
        /\ trace[n].at[Len(trace[n].at) - 1] # Alt
        /\ ~IgnoreOf(StepAt(trace[n].at))
        /\ \E q \in Ancestors(trace[n].at) : IgnoreOf(StepAt(q))
        => /\ trace[n].at[Len(trace[n].at)] < Len(ListOf(Outer(trace[n].at)))
              => \E m \in (n + 1)..Len(trace) :
                    IsPrefix(Outer(trace[n].at)
                                \o <<trace[n].at[Len(trace[n].at) - 1],
                                     trace[n].at[Len(trace[n].at)] + 1>>,
                             trace[m].at)
           /\ MoreParents(Outer(trace[n].at), trace[n].at[Len(trace[n].at) - 1])
              => \E m \in (n + 1)..Len(trace) :
                    IsPrefix(Outer(trace[n].at)
                                \o <<trace[n].at[Len(trace[n].at) - 1] + 1>>,
                             trace[m].at)

\* C8, amended: when a step whose own flag is false cannot resolve its
\* element, the failure travels up to the nearest handler that swallows it:
\* the group action whose own flag or whose group's flag is true, or the
\* tolerant top-level step.  Everything nested in that handler's step is
\* abandoned, later siblings and parents included; the list that holds the
\* handler's step goes on.
C8_NearestHandlerSwallows ==
    \A n \in 1..Len(trace) :
        /\ ResolutionFailure(n)
        /\ ~IgnoreOf(StepAt(trace[n].at))
        /\ \E q \in SelfAndAncestors(trace[n].at) : Caught(q)
        => /\ n < Len(trace)
           /\ trace[n + 1] =
                 Log(IF Len(Catcher(trace[n].at)) = 1 THEN "step_ignored"
                     ELSE "action_ignored", Catcher(trace[n].at))
           /\ \A x \in (n + 2)..Len(trace) :
                 ~IsPrefix(Catcher(trace[n].at), trace[x].at)
           /\ Len(Catcher(trace[n].at)) > 1
              => GroupGoesOn(n + 1, Catcher(trace[n].at))
           /\ Len(Catcher(trace[n].at)) = 1
              => idx > trace[n].at[1]

\* a click two groups deep found nothing; the inner group let the failure
\* go and left its second action undone, the outer group swallowed it and
\* went on with its own next action
C8_Witness ==
    \E n \in 1..Len(trace) :
        /\ ResolutionFailure(n)
        /\ Len(trace[n].at) = 5
        /\ n + 2 <= Len(trace)
        /\ Len(Catcher(trace[n].at)) = 3
        /\ Len(ListOf(Outer(trace[n].at))) > trace[n].at[5]
        /\ trace[n + 2].op = "action"
        /\ Outer(trace[n + 2].at) = <<trace[n].at[1]>>

\* ---------------------------------------------------------------- C9
\* entry n is the failing call of a child click of an array: a count that
\* found nothing, a wait that timed out, a click that raised
ChildFailure(n) ==
    /\ Len(trace[n].at) > 1
    /\ trace[n].at[Len(trace[n].at) - 1] # Alt
    /\ KindOf(StepAt(Outer(trace[n].at))) = "array"
    /\ \/ ZeroMatch(n)
       \/ trace[n].op \in {"wait_for", "click"} /\ ~trace[n].ok

\* after entry m, the last of child p, the array goes on: with the next
\* child of the same parent, else with the first child of the next parent,
\* else it ends without a failure
ArrayGoesOn(m, p) ==
    IF p[Len(p)] < Len(ListOf(Outer(p)))
    THEN /\ m < Len(trace)
         /\ trace[m + 1].op = "count"
         /\ trace[m + 1].at = Outer(p) \o <<p[Len(p) - 1], p[Len(p)] + 1>>
    ELSE IF MoreParents(Outer(p), p[Len(p) - 1])
    THEN /\ m < Len(trace)
         /\ trace[m + 1].op = "count"
         /\ trace[m + 1].at = Outer(p) \o <<p[Len(p) - 1] + 1, 1>>
    ELSE m < Len(trace)
         => ~(trace[m + 1].op \in FailureLogs
              /\ IsPrefix(trace[m + 1].at, Outer(p)))

\* C9: a child click of an array whose own ignore flag is true and that
\* fails is logged as a warning and passed over: the array goes on with the
\* next child of the same parent, then with the next parents, in order, and
\* does not fail because of it.
C9_ToleratedChildOnlySkipped ==
    \A n \in 1..Len(trace) :
        ChildFailure(n) /\ IgnoreOf(StepAt(trace[n].at))
        => /\ n < Len(trace)
           /\ trace[n + 1] = Log("warning", trace[n].at)
           /\ ArrayGoesOn(n + 1, trace[n].at)

\* the first child of the first of two parents raised on its click and was
\* passed over; the second child was clicked under both parents
C9_Witness ==
    \E n \in 1..Len(trace) :
        /\ ChildFailure(n)
        /\ trace[n].op = "click"
        /\ IgnoreOf(StepAt(trace[n].at))
        /\ trace[n].at[Len(trace[n].at) - 1] = 0
        /\ \A i \in 0..1 :
              \E m \in (n + 1)..Len(trace) :
                 /\ trace[m].op = "click" /\ trace[m].ok
                 /\ trace[m].at = Outer(trace[n].at) \o <<i, 2>>

\* ---------------------------------------------------------------- C10
\* path a comes before path b of the same length, entry by entry
LexLess(a, b) ==
    \E l \in 1..Len(a) :
        /\ SubSeq(a, 1, l - 1) = SubSeq(b, 1, l - 1)
        /\ a[l] < b[l]

RECURSIVE Power(_, _)
Power(m, d) == IF d = 0 THEN 1 ELSE m * Power(m, d - 1)

\* the clicks made under top-level step 1
IsClickOfFirst(e) == e.op = "click" /\ e.at[1] = 1
ClicksOfFirst == SelectSeq(trace, IsClickOfFirst)

\* C10: with d groups nested in each other, every one matching `matches`
\* parents in its enclosing parent and none giving an index, each innermost
\* action is executed matches^d times, and the executions come in the order
\* of (outermost parent index, ..., innermost parent index, action number).
C10_NestedGroupsMultiply ==
    \A d \in 1..MaxDepth :
        workflow[1] = Nest(d, <<Click("btn"), Click("a")>>) /\ idx > 1
        => /\ \A j \in 1..2 :
                 Cardinality({n \in 1..Len(ClicksOfFirst) :
                                 ClicksOfFirst[n].at[2 * d + 1] = j})
                    = Power(matches, d)
           /\ \A n \in 1..Len(ClicksOfFirst) :
                 /\ Len(ClicksOfFirst[n].at) = 2 * d + 1
                 /\ ClicksOfFirst[n].ok
           /\ \A n \in 1..(Len(ClicksOfFirst) - 1) :
                 LexLess(ClicksOfFirst[n].at, ClicksOfFirst[n + 1].at)

\* three groups deep with two parents at every level: eight executions of
\* each innermost action
C10_Witness ==
    /\ workflow[1] = Nest(3, <<Click("btn"), Click("a")>>)
    /\ matches = 2
    /\ idx > 1
    /\ Len(ClicksOfFirst) = 16

\* ---------------------------------------------------------------- C11
\* the step just dispatched ended without raising: no handler logged it
CompletedNow == trace'[Len(trace')].op \notin FailureLogs

\* what one iteration of the run loop does to current_frame
C11_Step ==
    idx <= Len(workflow) /\ (idx' # idx \/ status' # status)
    => IF ~CompletedNow \/ KindOf(workflow[idx]) \notin {"goto", "frame", "main_frame"}
       THEN current_frame' = current_frame
       ELSE IF KindOf(workflow[idx]) = "frame"
       THEN current_frame' = switch_to_frame(workflow[idx], <<idx>>).ret
       ELSE current_frame' = None

\* C11: after a top-level step, current_frame is None when a goto or a
\* main_frame step completed, the handle the frame step resolved when a
\* frame step completed, and what it was before in every other case (a step
\* of another kind, or a step that failed).
C11_FrameFollowsStepKind == [][C11_Step]_vars

\* a frame step set the frame and the goto after it reset it
C11_Witness ==
    /\ Len(workflow) = 2
    /\ KindOf(workflow[1]) = "frame"
    /\ KindOf(workflow[2]) = "goto"
    /\ idx = 3
    /\ current_frame = None
    /\ trace[Len(trace)].op = "goto" /\ trace[Len(trace)].ok

\* ---------------------------------------------------------------- C12
\* the frame a nested frame, main_frame or goto action leaves behind
FrameLeftBy(action) ==
    IF KindOf(action) = "frame" THEN switch_to_frame(action, <<>>).ret ELSE None

\* entry x dispatches a nested action that changed the local frame: a
\* frame, main_frame or goto action that did not fail
ChangedFrame(x) ==
    /\ trace[x].op = "action"
    /\ KindOf(StepAt(trace[x].at)) \in {"frame", "main_frame", "goto"}
    /\ ~SwallowedHere(x)
    /\ ~LeftGroup(x)

\* the entries before n that dispatch an earlier action of the same parent
\* iteration as the action dispatched at entry n and changed the frame
ChangesBefore(n) ==
    {x \in 1..(n - 1) :
        /\ ChangedFrame(x)
        /\ Len(trace[x].at) = Len(trace[n].at)
        /\ SubSeq(trace[x].at, 1, Len(trace[x].at) - 1)
              = SubSeq(trace[n].at, 1, Len(trace[n].at) - 1)}

\* the entry that dispatches the step at path g
DispatchOf(g) ==
    CHOOSE x \in 1..Len(trace) : trace[x].op \in {"step", "action"} /\ trace[x].at = g

\* C12: a nested action is dispatched with the frame the last frame,
\* main_frame or goto action before it in the same parent iteration left
\* behind, and with the frame its group was called with when there is none
\* (so every parent iteration starts from the group's frame); and the run
\* loop's frame after a group step is the frame before it.
C12_GroupFrameIsLocal ==
    \A n \in 1..Len(trace) :
        /\ trace[n].op = "action"
           => IF ChangesBefore(n) = {}
              THEN trace[n].arg = trace[DispatchOf(Outer(trace[n].at))].arg
              ELSE trace[n].arg =
                      FrameLeftBy(StepAt(trace[
                          CHOOSE x \in ChangesBefore(n) :
                              \A o \in ChangesBefore(n) : o <= x].at))
        /\ trace[n].op = "step" /\ KindOf(StepAt(trace[n].at)) = "group_action"
           => IF \E m \in (n + 1)..Len(trace) : trace[m].op = "step"
              THEN \A m \in (n + 1)..Len(trace) :
                      trace[m].op = "step" /\ trace[m].at = <<trace[n].at[1] + 1>>
                      => trace[m].arg = trace[n].arg
              ELSE current_frame = trace[n].arg

\* a group called inside a frame, with two parents: a nested main_frame
\* action changed the frame for the next action, the second parent started
\* from the group's frame again, and the step after the group was
\* dispatched with the frame set before the group
C12_Witness ==
    /\ Len(workflow) = 3
    /\ idx = 4
    /\ current_frame = "pay"
    /\ \E n \in 1..Len(trace) :
          /\ trace[n].op = "action" /\ trace[n].at = <<2, 0, 2>>
          /\ trace[n].arg = None
    /\ \E n \in 1..Len(trace) :
          /\ trace[n].op = "action" /\ trace[n].at = <<2, 1, 1>>
          /\ trace[n].arg = "pay"

\* ---------------------------------------------------------------- C13
\* what a locator was resolved against: the locator without its last link
RootOf(loc) == [loc EXCEPT !.path = SubSeq(loc.path, 1, Len(loc.path) - 1)]

RECURSIVE ExpectedRoot(_)
\* the root the step at path p must resolve against: for a top-level step
\* the frame it was dispatched with, else the page; for an alternate click
\* the root of its click step; for an entry of a group or array the parent
\* element of its iteration, whatever the frame
ExpectedRoot(p) ==
    IF Len(p) = 1
    THEN IF trace[DispatchOf(p)].arg # None
         THEN FrameRoot(trace[DispatchOf(p)].arg) ELSE PageRoot
    ELSE IF p[Len(p) - 1] = Alt THEN ExpectedRoot(Outer(p))
    ELSE Nth(ParentsOf(Outer(p)), p[Len(p) - 1])

\* C13: every selector a step or a condition resolves (click, write,
\* scroll, array, group_action, download_from_link, the condition
\* evaluator) is resolved against the parent element when one is set,
\* otherwise against the current frame when one is set, otherwise against
\* the page.
C13_ParentOverFrameOverPage ==
    \A n \in 1..Len(trace) :
        trace[n].op \in {"count", "cond_count"}
        => RootOf(trace[n].loc) = ExpectedRoot(trace[n].at)

\* parent and frame both set: a nested click dispatched with the local frame
\* "pay" resolved against its parent, an element of the page
C13_Witness ==
    \E n \in 1..Len(trace) :
        /\ trace[n].op = "count"
        /\ Len(trace[n].at) = 3
        /\ KindOf(StepAt(trace[n].at)) = "write"
        /\ trace[DispatchOf(trace[n].at)].arg = "pay"
        /\ trace[n].loc.frame = None
        /\ Len(trace[n].loc.path) = 2

\* ---------------------------------------------------------------- C14
\* entry n is the count of a click, write, scroll or download_from_link
\* step (an alternate click and a child click are clicks)
LeafCount(n) ==
    /\ trace[n].op = "count"
    /\ \/ KindOf(StepAt(trace[n].at)) \in {"click", "write", "scroll",
                                           "download_from_link"}
       \/ Len(trace[n].at) > 1 /\ trace[n].at[Len(trace[n].at) - 1] = Alt
       \/ Len(trace[n].at) > 1 /\ KindOf(StepAt(Outer(trace[n].at))) = "array"

\* the index the step at path p asks for: its array_select_one, 0 without
\* one and for a child click of an array
AskedIndex(p) ==
    IF /\ "array_select_one" \in DOMAIN StepAt(p)
       /\ ~(Len(p) > 1 /\ p[Len(p) - 1] # Alt /\ KindOf(StepAt(Outer(p))) = "array")
    THEN StepAt(p)["array_select_one"] ELSE 0

\* nothing found at entry n, or the asked index outside [0, count)
Unresolvable(n) ==
    \/ Count(trace[n].loc) = 0
    \/ AskedIndex(trace[n].at) < 0
    \/ AskedIndex(trace[n].at) >= Count(trace[n].loc)

\* the calls made on an element
OnElement == {"wait_for", "scroll_into_view", "get_attribute", "click", "clear",
              "type", "wait_for_load_state", "expect_download", "save_as"}

\* C14: when a click, write, scroll or download_from_link step finds no
\* element, or its index is outside [0, count), it makes no call on any
\* element and signals the failure at once: a warning when its own flag is
\* true, otherwise an exception that a handler swallows or that aborts the
\* run.  Otherwise every call it makes is on the element at the asked
\* index, which is 0 when none is given.
C14_CountAndIndexGuardElement ==
    \A n \in 1..Len(trace) :
        LeafCount(n)
        => IF Unresolvable(n)
           THEN /\ \A m \in 1..Len(trace) :
                      trace[m].at = trace[n].at => trace[m].op \notin OnElement
                /\ n < Len(trace)
                /\ IF IgnoreOf(StepAt(trace[n].at))
                   THEN trace[n + 1] = Log("warning", trace[n].at)
                   ELSE /\ trace[n + 1].op \in FailureLogs
                        /\ IsPrefix(trace[n + 1].at, trace[n].at)
                        /\ (\A q \in SelfAndAncestors(trace[n].at) : ~Caught(q))
                           => trace[n + 1].op = "step_failed" /\ status = "aborted"
           ELSE /\ n < Len(trace)
                /\ trace[n + 1].op = "wait_for"
                /\ \A m \in 1..Len(trace) :
                      trace[m].at = trace[n].at /\ trace[m].op \in OnElement
                      => trace[m].loc = Nth(trace[n].loc, AskedIndex(trace[n].at))

\* an index of 5 against a set of `matches` elements aborted the run with no
\* call on an element
C14_Witness ==
    /\ status = "aborted"
    /\ \E n \in 1..Len(trace) :
          /\ LeafCount(n)
          /\ Count(trace[n].loc) > 0
          /\ "array_select_one" \in DOMAIN StepAt(trace[n].at)
          /\ Unresolvable(n)
          /\ n + 1 = Len(trace)

\* ---------------------------------------------------------------- C15
\* the value of a key that is present and not empty
Given(step, k) == k \in DOMAIN step /\ step[k] # ""

\* the frame step under way found the frame f
FoundFrame(f) == CompletedNow /\ current_frame' = f

\* the frame step under way failed
NoFrame == ~CompletedNow /\ current_frame' = current_frame

\* the frame a URL part finds: the first of Frames, in order, that has it
FirstByUrl(u) ==
    IF \A n \in 1..Len(Frames) : ~Contains(Frames[n].url, u)
    THEN NoFrame
    ELSE \E n \in 1..Len(Frames) :
            /\ Contains(Frames[n].url, u)
            /\ \A m \in 1..(n - 1) : ~Contains(Frames[m].url, u)
            /\ FoundFrame(Frames[n].name)

\* what one iteration of the run loop on a frame step leaves in current_frame
C15_Step ==
    /\ idx <= Len(workflow)
    /\ idx' # idx \/ status' # status
    /\ KindOf(workflow[idx]) = "frame"
    => IF Given(workflow[idx], "selector")
          THEN FoundFrame("fl:" \o workflow[idx].selector)
          ELSE IF Given(workflow[idx], "name")
          THEN IF \E n \in 1..Len(Frames) : Frames[n].name = workflow[idx].name
               THEN FoundFrame(workflow[idx].name) ELSE NoFrame
          ELSE IF Given(workflow[idx], "url")
          THEN FirstByUrl(workflow[idx].url)
          ELSE IF "index" \in DOMAIN workflow[idx]
          THEN IF 0 <= workflow[idx].index /\ workflow[idx].index < Len(Frames)
               THEN FoundFrame(Frames[workflow[idx].index + 1].name) ELSE NoFrame
          ELSE NoFrame

\* C15: a frame step finds its frame by selector, else by name, else by URL
\* part, else by index; a URL part finds the first frame, in list order,
\* whose URL contains it; an index finds frames[index] only when
\* 0 <= index < number of frames; a step with none of the four fails.
C15_FramePrecedence == [][C15_Step]_vars

\* "https" is in both URLs and the step also gives index 1: the first frame
\* was taken
C15_Witness ==
    /\ idx = 2
    /\ "url" \in DOMAIN workflow[1] /\ workflow[1].url = "https"
    /\ "index" \in DOMAIN workflow[1] /\ workflow[1].index = 1
    /\ DOMAIN workflow[1] = {"type", "url", "index"}
    /\ current_frame = "top"

\* ---------------------------------------------------------------- C16
\* the kinds both dispatches know
SupportedKinds == {"goto", "click", "array", "group_action", "frame", "main_frame",
                   "write", "use_last_tab", "scroll", "download_from_link",
                   "download_page", "save_page"}

\* entry n dispatches a step that names a kind
KindDispatch(n) ==
    /\ trace[n].op \in {"step", "action"}
    /\ ~Falsy(get_key(StepAt(trace[n].at), "type", <<>>, None))

\* the flags the claim names for the step at p: its own at top level, its
\* own or its group's when nested
ToleratedAt(p) ==
    IF Len(p) = 1 THEN IgnoreOf(StepAt(p))
    ELSE IgnoreOf(StepAt(p)) \/ IgnoreOf(StepAt(Outer(p)))

\* C16: a step whose kind is not supported makes no call at all, at top
\* level and nested alike.  When tolerated (top level: its own flag; nested:
\* its own or its group's flag) it is logged as a warning and passed over;
\* otherwise it raises: at top level the run aborts, nested the failure
\* leaves the group, and with no tolerant step around it the run aborts.
\* A kind is matched after strip() and lower(): " Click " and "CLICK" are
\* clicks.
C16_UnsupportedKind ==
    \A n \in 1..Len(trace) :
        KindDispatch(n)
        => IF KindOf(StepAt(trace[n].at)) \in SupportedKinds
           THEN StepAt(trace[n].at).type \in {" Click ", "CLICK"}
                => n < Len(trace) /\ trace[n + 1].op = "count"
                                  /\ trace[n + 1].at = trace[n].at
           ELSE /\ n < Len(trace)
                /\ \A m \in 1..Len(trace) :
                      trace[m].at = trace[n].at
                      => m = n \/ trace[m].op \in FailureLogs \cup {"warning"}
                /\ IF ToleratedAt(trace[n].at)
                   THEN trace[n + 1] = Log("warning", trace[n].at)
                   ELSE /\ trace[n + 1].op \in FailureLogs
                        /\ IsPrefix(trace[n + 1].at, trace[n].at)
                        /\ trace[n + 1].at # trace[n].at
                           \/ Len(trace[n].at) = 1
                        /\ Len(trace[n].at) = 1
                           => trace[n + 1].op = "step_failed" /\ status = "aborted"
                        /\ (\A q \in SelfAndAncestors(trace[n].at) : ~Caught(q))
                           => trace[n + 1].op = "step_failed" /\ status = "aborted"

\* an unsupported kind two groups deep, tolerated by nothing, aborted the run
C16_Witness ==
    /\ status = "aborted"
    /\ \E n \in 1..Len(trace) :
          /\ KindDispatch(n)
          /\ KindOf(StepAt(trace[n].at)) = "hover"
          /\ Len(trace[n].at) = 5
          /\ n + 1 = Len(trace)

\* ---------------------------------------------------------------- C17
\* C17 as the spec states it: the process exits with 0 when the loop ran to
\* its end (every step succeeded or failed under tolerance) and with a
\* nonzero code when it ended with a failure that was not tolerated.
C17_AsStated ==
    pc = "exited" /\ status \in {"completed", "aborted"}
    => IF status = "completed" THEN exit_code = 0 ELSE exit_code # 0

\* C17, what the code guarantees: a run that ended with a failure that was
\* not tolerated exits with 1, and an exit with 0 follows only a loop that
\* ran to its end and a closing prompt that read a line.
C17_ExitCode ==
    pc = "exited"
    => /\ exit_code \in {0, 1}
       /\ status = "aborted" => exit_code = 1
       /\ exit_code = 0
          => /\ status = "completed"
             /\ trace[Len(trace)].op = "input" /\ trace[Len(trace)].ok
             /\ document.kind = "array"

\* a workflow whose first step failed under tolerance and whose second
\* succeeded exited with 0
C17_Witness ==
    /\ pc = "exited"
    /\ exit_code = 0
    /\ Len(workflow) = 2
    /\ \E n \in 1..Len(trace) : trace[n] = Log("step_ignored", <<1>>)

\* ---------------------------------------------------------------- C18
\* C18: when the document cannot be read or parsed, or its top level is not
\* an array, run() is never entered: no step is dispatched, nothing is
\* called or logged by the run, and the process exits with 1.
C18_BadDocumentNeverRuns ==
    document.kind # "array"
    => /\ pc \in {"load", "exited"}
       /\ status = "idle"
       /\ trace = <<>>
       /\ workflow = <<>>
       /\ pc = "exited" => exit_code = 1

\* a JSON object at the top level ended the process
C18_Witness ==
    /\ document.kind = "object"
    /\ pc = "exited"
    /\ exit_code = 1

\* ---------------------------------------------------------------- C19
\* path a is of an entry that comes earlier than the entry of path b: where
\* they first differ, a has the earlier top-level step, parent or list entry
\* (a step and the steps nested in it are not ordered by this)
Earlier(a, b) ==
    \E l \in 1..Len(a) :
        /\ l <= Len(b)
        /\ SubSeq(a, 1, l - 1) = SubSeq(b, 1, l - 1)
        /\ a[l] < b[l]

\* C19: execution is sequential.  Once anything of a step, of a parent's
\* iteration or of a nested action has happened, nothing happens any more
\* for an earlier entry of the same list or for an earlier parent: the
\* events of a step (its nested steps included) are consecutive up to events
\* of the steps that enclose it, top-level steps run in document order, and
\* everything of parent i comes before anything of parent i+1.
C19_Sequential ==
    \A n \in 1..Len(trace) : \A m \in n..Len(trace) :
        ~Earlier(trace[m].at, trace[n].at)

\* two parents: an action of the first failed and was swallowed, the next
\* action of the first was dispatched, and then the first action of the
\* second parent
C19_Witness ==
    /\ matches = 2
    /\ \E n \in 1..Len(trace) : \E m \in n..Len(trace) : \E k \in m..Len(trace) :
          /\ trace[n].op \in FailureLogs \cup {"warning"}
          /\ Len(trace[n].at) = 3 /\ trace[n].at[2] = 0 /\ trace[n].at[3] = 1
          /\ trace[m].op = "action" /\ trace[m].at = <<trace[n].at[1], 0, 2>>
          /\ trace[k].op = "action" /\ trace[k].at = <<trace[n].at[1], 1, 1>>

\* ---------------------------------------------------------------- C20
\* entry n is a wait for the load state that timed out
WaitTimedOut(n) == trace[n].op = "wait_for_load_state" /\ ~trace[n].ok

\* C20: the wait for the load state is made only after the click on a link
\* was made, and its timeout never fails the click, whatever the flags are:
\* no warning and no failure is logged for it, the run is not aborted by it,
\* and what comes next is the next entry of the list, the next parent or
\* the end of the run.
C20_NavigationWaitNeverFails ==
    \A n \in 1..Len(trace) :
        WaitTimedOut(n)
        => /\ n > 1
           /\ trace[n - 1].op = "click" /\ trace[n - 1].ok
           /\ trace[n - 1].loc = trace[n].loc /\ trace[n - 1].at = trace[n].at
           /\ HasHref(trace[n].loc)
           /\ IF n = Len(trace)
              THEN status = "running" /\ idx = trace[n].at[1] + 1
              ELSE /\ trace[n + 1].op \notin FailureLogs \cup {"warning"}
                   /\ trace[n + 1].at # trace[n].at

\* in a group that tolerates nothing, the click on the slow link timed out
\* waiting and the next action of the same parent was dispatched
C20_Witness ==
    \E n \in 1..Len(trace) :
        /\ WaitTimedOut(n)
        /\ Len(trace[n].at) = 3
        /\ ~IgnoreOf(StepAt(trace[n].at))
        /\ ~IgnoreOf(StepAt(Outer(trace[n].at)))
        /\ n < Len(trace)
        /\ trace[n + 1].op = "action"
        /\ trace[n + 1].at = <<trace[n].at[1], trace[n].at[2], trace[n].at[3] + 1>>

\* ---------------------------------------------------------------- C21
\* entry n dispatches a scroll step that gives x or y
CoordinateScroll(n) ==
    /\ trace[n].op \in {"step", "action"}
    /\ KindOf(StepAt(trace[n].at)) = "scroll"
    /\ {"x", "y"} \cap DOMAIN StepAt(trace[n].at) # {}

\* the coordinate c of a step, 0 when it is not given
CoordinateOf(step, c) == IF c \in DOMAIN step THEN step[c] ELSE 0

SelectorBuilt == call.fn = "build_css_selector" /\ result # <<>>

\* a value that is None or empty
Absent(v) == v = None \/ v = ""

\* [attr="value"] with both, [attr] with the attribute only, else nothing
AttributeClause(attr, value) ==
    IF Absent(attr) THEN ""
    ELSE IF value = None THEN "[" \o attr \o "]"
    ELSE "[" \o attr \o "=\"" \o value \o "\"]"

\* the words of the class, each after a dot
WordsClause(cls) ==
    IF Absent(cls) \/ Split(cls) = <<>> THEN "" ELSE "." \o Join(Split(cls), ".")

\* C22 as the spec states it: the selector is the tag (or * without one),
\* then the class words each after a dot, then the attribute clause.
C22_AsStated ==
    SelectorBuilt
    => result[1] = (IF Absent(call.tag) THEN "*" ELSE call.tag)
                       \o WordsClause(call.cls)
                       \o AttributeClause(call.attr, call.value)

\* C22, amended: the selector is, without separators, the tag with the
\* whitespace around it removed (or * without a tag); the class value as it
\* is, stripped, when it begins with a dot, otherwise its words each after a
\* dot (nothing without a class); and [attr="value"] with both, [attr] with
\* the attribute only, nothing without an attribute.  In particular
\* build(None, None, None, None) = * and
\* build("div", "a b", "data-x", "1") = div.a.b[data-x="1"].
C22_SelectorBuilt ==
    SelectorBuilt
    => /\ result[1] = (IF Absent(call.tag) THEN "*" ELSE Strip(call.tag))
                          \o (IF ~Absent(call.cls) /\ StartsWith(LStrip(call.cls), ".")
                              THEN Strip(call.cls) ELSE WordsClause(call.cls))
                          \o AttributeClause(call.attr, call.value)
       /\ call.tag = None /\ call.cls = None /\ call.attr = None /\ call.value = None
          => result[1] = "*"
       /\ call.tag = "div" /\ call.cls = "a b" /\ call.attr = "data-x" /\ call.value = "1"
          => result[1] = "div.a.b[data-x=\"1\"]"

\* the class " .a .b" went into the selector with its inner space
C22_Witness ==
    /\ SelectorBuilt
    /\ call.tag = "div" /\ call.cls = " .a .b" /\ call.attr = None
    /\ result[1] = "div.a .b"

\* ---------------------------------------------------------------- C23
\* get_key has returned
GotKey == call.fn = "get_key" /\ result # <<>>

\* alias number n is the first alias that is a key of the dict
FirstAlias(n) ==
    /\ call.alts[n] \in DOMAIN call.d
    /\ \A o \in 1..(n - 1) : call.alts[o] \notin DOMAIN call.d

\* key number n of the dict is its first key equal to the primary key
\* ignoring case
FirstIgnoringCase(n) ==
    /\ Lower(call.keys[n]) = Lower(call.key)
    /\ \A o \in 1..(n - 1) : Lower(call.keys[o]) # Lower(call.key)

\* C23: get_key returns the value under the exact primary key; else the
\* value under the first alias, in the order given, that is a key of the
\* dict; else the value under the first key of the dict that equals the
\* primary key ignoring case; else the default.  A key that is present wins
\* even when its value is None or empty, and the call always returns.  On a
\* dict with at most one key equal to the primary key ignoring case, the
\* lookup used for the steps of a workflow returns the same.
C23_LookupOrder ==
    /\ call.fn = "get_key" /\ result = <<>> => ENABLED CallGetKey
    /\ GotKey
       => /\ IF call.key \in DOMAIN call.d
             THEN result[1] = call.d[call.key]
             ELSE IF \E n \in 1..Len(call.alts) : call.alts[n] \in DOMAIN call.d
             THEN \E n \in 1..Len(call.alts) :
                     FirstAlias(n) /\ result[1] = call.d[call.alts[n]]
             ELSE IF \E n \in 1..Len(call.keys) : Lower(call.keys[n]) = Lower(call.key)
             THEN \E n \in 1..Len(call.keys) :
                     FirstIgnoringCase(n) /\ result[1] = call.d[call.keys[n]]
             ELSE result[1] = call.default
          /\ Cardinality({k \in DOMAIN call.d : Lower(k) = Lower(call.key)}) <= 1
             => result[1] = get_key(call.d, call.key, call.alts, call.default)

\* the primary key is present with the value None, an alias and a key that
\* differs in case are present with values: None was returned
C23_Witness ==
    /\ GotKey
    /\ call.keys = <<"Title", "name", "title">>
    /\ call.alts = <<"name", "heading">>
    /\ call.d["title"] = None /\ call.d["name"] = "v:name"
    /\ result[1] = None

\* ---------------------------------------------------------------- C24
\* the step at path p resolves an element: a click, write, scroll or
\* download_from_link step, an alternate click or a child click of an array
LeafAt(p) ==
    \/ KindOf(StepAt(p)) \in {"click", "write", "scroll", "download_from_link"}
    \/ Len(p) > 1 /\ p[Len(p) - 1] = Alt
    \/ Len(p) > 1 /\ KindOf(StepAt(Outer(p))) = "array"

\* entry n is the visibility wait or the download wait of such a step, and
\* it timed out
TimedOut(n) ==
    /\ trace[n].op \in {"wait_for", "expect_download"}
    /\ ~trace[n].ok
    /\ LeafAt(trace[n].at)

\* entry n is the count of such a step, and it found nothing
NotFound(n) == ZeroMatch(n) /\ LeafAt(trace[n].at)

\* how the step of entry n ends after that entry failed: it is abandoned;
\* under its own flag a warning is logged, nothing propagates and the run
\* goes on; without it the failure goes to the nearest handler, and with no
\* tolerant step around it the run aborts
EndsAsFailure(n) ==
    /\ n < Len(trace)
    /\ \A m \in (n + 1)..Len(trace) :
          trace[m].at = trace[n].at => trace[m].op \notin OnElement
    /\ IF IgnoreOf(StepAt(trace[n].at))
       THEN /\ trace[n + 1] = Log("warning", trace[n].at)
            /\ IF n + 1 = Len(trace)
               THEN status = "running" /\ idx = trace[n].at[1] + 1
               ELSE trace[n + 2].op \notin FailureLogs \cup {"warning"}
       ELSE /\ trace[n + 1].op \in FailureLogs
            /\ IsPrefix(trace[n + 1].at, trace[n].at)
            /\ trace[n + 1].op = "step_failed"
               => status = "aborted" /\ n + 1 = Len(trace)
            /\ (\A q \in SelfAndAncestors(trace[n].at) : ~Caught(q))
               <=> trace[n + 1].op = "step_failed"

\* C24: for a click, write, scroll, array child click and
\* download_from_link, a timeout of the visibility wait or of the download
\* wait ends the step as an element that is not found ends it under the
\* same flags: tolerated, the step is abandoned with a warning and the run
\* goes on; not tolerated by any step around it, the run aborts.
C24_TimeoutLikeNotFound ==
    \A n \in 1..Len(trace) : TimedOut(n) \/ NotFound(n) => EndsAsFailure(n)

\* a tolerated download whose click started no download was abandoned and
\* the next top-level step was dispatched
C24_Witness ==
    \E n \in 1..Len(trace) :
        /\ TimedOut(n)
        /\ trace[n].op = "expect_download"
        /\ IgnoreOf(StepAt(trace[n].at))
        /\ n + 2 <= Len(trace)
        /\ trace[n + 2].op = "step"

\* ---------------------------------------------------------------- C25
\* the step at path p is a click resolution: a click step, an alternate
\* click or a child click of an array
ClickAt(p) ==
    \/ KindOf(StepAt(p)) = "click"
    \/ Len(p) > 1 /\ p[Len(p) - 1] = Alt
    \/ Len(p) > 1 /\ KindOf(StepAt(Outer(p))) = "array"

\* entry n is the click call of a click resolution
ClickCall(n) == trace[n].op = "click" /\ ClickAt(trace[n].at)

\* C25: the click of a click resolution comes after, in this order and for
\* the same step, the count of the set, the visibility wait on the selected
\* element, which succeeded, and the scroll of that element into view; the
\* count was above 0 and the index inside [0, count); the click is on the
\* element at that index; and a click resolution clicks at most once.
C25_ClickOrder ==
    \A n \in 1..Len(trace) :
        ClickCall(n)
        => /\ \E c \in 1..(n - 1) : \E w \in (c + 1)..(n - 1) : \E v \in (w + 1)..(n - 1) :
                 /\ trace[c].op = "count" /\ trace[c].at = trace[n].at
                 /\ Count(trace[c].loc) > 0
                 /\ AskedIndex(trace[n].at) >= 0
                 /\ AskedIndex(trace[n].at) < Count(trace[c].loc)
                 /\ trace[n].loc = Nth(trace[c].loc, AskedIndex(trace[n].at))
                 /\ trace[w].op = "wait_for" /\ trace[w].ok
                 /\ trace[w].at = trace[n].at /\ trace[w].loc = trace[n].loc
                 /\ trace[v].op = "scroll_into_view"
                 /\ trace[v].at = trace[n].at /\ trace[v].loc = trace[n].loc
           /\ \A m \in 1..Len(trace) :
                 trace[m].op = "click" /\ trace[m].at = trace[n].at => m = n

\* of two matching elements the second was asked for, and the click went to
\* it and succeeded
C25_Witness ==
    \E n \in 1..Len(trace) :
        /\ ClickCall(n)
        /\ trace[n].ok
        /\ AskedIndex(trace[n].at) = 1
        /\ trace[n].loc.path[Len(trace[n].loc.path)].n = 1

\* ---------------------------------------------------------------- C26
\* entry n is a character typed by a write step
TypedByWrite(n) == trace[n].op = "type" /\ KindOf(StepAt(trace[n].at)) = "write"

\* the text a write step types: under write, else value, else text
TextOf(step) ==
    IF "write" \in DOMAIN step THEN step.write
    ELSE IF "value" \in DOMAIN step THEN step.value ELSE step.text

\* a write step clears the field unless clear is given as false
ClearsFirst(step) == "clear" \notin DOMAIN step \/ step.clear

\* how many calls come before the first character
BeforeText(step) == IF ClearsFirst(step) THEN 5 ELSE 4

\* C26: when a write step types a character, the entries of that step are,
\* in this order: the count, the visibility wait, the scroll into view, the
\* click and, unless clear is given as false, the clear, every one on the
\* selected element and every one successful, and then one type call per
\* character of the text, in text order.  So nothing is typed after an
\* action that failed.
C26_WriteOrder ==
    \A n \in 1..Len(trace) :
        TypedByWrite(n)
        => \E c \in 1..(n - 1) :
              /\ trace[c].op = "count" /\ trace[c].at = trace[n].at
              /\ \A m \in 1..(c - 1) :
                    trace[m].at = trace[n].at => trace[m].op \in {"step", "action"}
              /\ trace[c + 1].op = "wait_for" /\ trace[c + 1].ok
              /\ trace[c + 2].op = "scroll_into_view"
              /\ trace[c + 3].op = "click" /\ trace[c + 3].ok
              /\ ClearsFirst(StepAt(trace[n].at))
                 => trace[c + 4].op = "clear" /\ trace[c + 4].ok
              /\ \A k \in 1..(BeforeText(StepAt(trace[n].at)) - 1) :
                    /\ trace[c + k].at = trace[n].at
                    /\ trace[c + k].loc = trace[n].loc
              /\ n >= c + BeforeText(StepAt(trace[n].at))
              /\ n < c + BeforeText(StepAt(trace[n].at)) + Len(TextOf(StepAt(trace[n].at)))
              /\ \A k \in 1..Len(TextOf(StepAt(trace[n].at))) :
                    c + BeforeText(StepAt(trace[n].at)) + k - 1 <= Len(trace)
                    => /\ trace[c + BeforeText(StepAt(trace[n].at)) + k - 1].op = "type"
                       /\ trace[c + BeforeText(StepAt(trace[n].at)) + k - 1].at = trace[n].at
                       /\ trace[c + BeforeText(StepAt(trace[n].at)) + k - 1].arg
                              = SubSeq(TextOf(StepAt(trace[n].at)), k, k)

\* "a b" was typed as a, space, b after a clear
C26_Witness ==
    \E n \in 4..Len(trace) :
        /\ TypedByWrite(n)
        /\ trace[n].arg = "b" /\ trace[n - 1].arg = " " /\ trace[n - 2].arg = "a"
        /\ trace[n - 3].op = "clear"

\* a step with clear given as false typed into a read-only field without
\* clearing it
C26_TypedWithoutClear ==
    \E n \in 2..Len(trace) :
        /\ TypedByWrite(n)
        /\ ~ClearsFirst(StepAt(trace[n].at))
        /\ ~Clearable(trace[n].loc)
        /\ trace[n - 1].op = "click"

\* ---------------------------------------------------------------- C27
\* the nested list of an array or group step
NestedOf(step) ==
    IF KindOf(step) = "array" THEN get_key(step, "click", <<>>, <<>>)
    ELSE get_key(step, "actions", <<"steps">>, <<>>)

\* entry c is the count of the parents of an array or group step that found
\* some, whose index, if it gives one, is in range, and whose list is not
\* empty
ParentsFound(c) ==
    /\ trace[c].op = "count"
    /\ KindOf(StepAt(trace[c].at)) \in {"array", "group_action"}
    /\ ~(Len(trace[c].at) > 1 /\ trace[c].at[Len(trace[c].at) - 1] = Alt)
    /\ Count(trace[c].loc) > 0
    /\ NestedOf(StepAt(trace[c].at)) # <<>>
    /\ "array_select_one" \in DOMAIN StepAt(trace[c].at)
       => /\ StepAt(trace[c].at)["array_select_one"] >= 0
          /\ StepAt(trace[c].at)["array_select_one"] < Count(trace[c].loc)

\* the parents the step of entry c is to process
ParentsDue(c) ==
    IF "array_select_one" \in DOMAIN StepAt(trace[c].at)
    THEN {StepAt(trace[c].at)["array_select_one"]}
    ELSE 0..(Count(trace[c].loc) - 1)

\* entry m belongs to the list nested in the step at path g
Inside(g, m) == Len(trace[m].at) > Len(g) /\ IsPrefix(g, trace[m].at)

\* a failure left the step at path g
Escaped(g) ==
    \E m \in 1..Len(trace) :
        trace[m].op \in FailureLogs /\ IsPrefix(trace[m].at, g)

\* C27: an array or group step that found n > 0 parents processes only the
\* parent at its index when it gives one inside [0, n), and otherwise the
\* parents 0, 1, ..., n-1 in that order, none skipped, and all of them
\* unless a failure leaves the step; every selector of the nested list is
\* resolved inside the parent being processed, in the scope of the parents.
C27_ParentsInOrder ==
    \A c \in 1..Len(trace) :
        ParentsFound(c)
        => /\ \A m \in 1..Len(trace) :
                 Inside(trace[c].at, m)
                 => /\ m > c
                    /\ trace[m].at[Len(trace[c].at) + 1] \in ParentsDue(c)
                    /\ \A i \in ParentsDue(c) :
                          i < trace[m].at[Len(trace[c].at) + 1]
                          => \E o \in c..m :
                                /\ Inside(trace[c].at, o)
                                /\ trace[o].at[Len(trace[c].at) + 1] = i
                    /\ \A o \in c..m :
                          Inside(trace[c].at, o)
                          => trace[o].at[Len(trace[c].at) + 1]
                                 <= trace[m].at[Len(trace[c].at) + 1]
                    /\ trace[m].op \in {"count", "cond_count"}
                       /\ Len(trace[m].at) = Len(trace[c].at) + 2
                       => /\ trace[m].loc.frame = trace[c].loc.frame
                          /\ Len(trace[m].loc.path) = Len(trace[c].loc.path) + 1
                          /\ SubSeq(trace[m].loc.path, 1, Len(trace[c].loc.path))
                                 = Nth(trace[c].loc,
                                       trace[m].at[Len(trace[c].at) + 1]).path
           /\ ~Escaped(trace[c].at)
              => \A i \in ParentsDue(c) :
                    \E m \in c..Len(trace) :
                       Inside(trace[c].at, m) /\ trace[m].at[Len(trace[c].at) + 1] = i

\* of two parents a group was told to take the second: its action ran
\* inside parent 1 and nothing ran inside parent 0
C27_Witness ==
    /\ matches = 2
    /\ \E c \in 1..Len(trace) :
          /\ ParentsFound(c)
          /\ KindOf(StepAt(trace[c].at)) = "group_action"
          /\ ParentsDue(c) = {1}
          /\ \E m \in c..Len(trace) :
                /\ trace[m].op = "click" /\ trace[m].ok
                /\ trace[m].at = trace[c].at \o <<1, 1>>

\* ---------------------------------------------------------------- C28
\* the condition of the click step at path p
IfOf(p) == get_key(StepAt(p), "if", <<>>, <<>>)

\* the status a condition gives, None without one
StatusOf(cond) == IF "status" \in DOMAIN cond THEN cond.status ELSE None

\* entry n dispatches a click step that has a condition
ConditionalClick(n) ==
    /\ trace[n].op \in {"step", "action"}
    /\ KindOf(StepAt(trace[n].at)) = "click"
    /\ DOMAIN IfOf(trace[n].at) # {}

\* the step at path p failed at entry n: what follows is the log of a
\* handler around it, and nothing was looked up or done at p or under p
FailedUnclicked(p, n) ==
    /\ n < Len(trace)
    /\ trace[n + 1].op \in FailureLogs
    /\ IsPrefix(trace[n + 1].at, p)
    /\ \A m \in 1..Len(trace) :
          IsPrefix(p, trace[m].at)
          => trace[m].op \in {"step", "action", "cond_count"} \cup FailureLogs

\* C28: a condition without a status (or with an empty one) fails before
\* anything is counted, and one with a status other than found and
\* not_found fails after the count; either way neither the primary nor an
\* alternate click is resolved.  With found the condition holds exactly
\* when the count is above 0, with not_found exactly when it is 0: when it
\* holds only alternate clicks follow, when it does not the primary click
\* is resolved and no alternate.
C28_ConditionStatus ==
    \A n \in 1..Len(trace) :
        /\ ConditionalClick(n)
           => IF StatusOf(IfOf(trace[n].at)) \in {None, ""}
              THEN FailedUnclicked(trace[n].at, n)
              ELSE /\ n < Len(trace)
                   /\ trace[n + 1].op = "cond_count"
                   /\ trace[n + 1].at = trace[n].at
        /\ trace[n].op = "cond_count"
           => IF StatusOf(IfOf(trace[n].at)) \notin {"found", "not_found"}
              THEN FailedUnclicked(trace[n].at, n)
              ELSE IF (StatusOf(IfOf(trace[n].at)) = "found")
                          = (Count(trace[n].loc) > 0)
              THEN /\ \A m \in 1..Len(trace) :
                         IsPrefix(trace[n].at, trace[m].at) /\ m > n
                         => \/ /\ Len(trace[m].at) > Len(trace[n].at)
                               /\ trace[m].at[Len(trace[n].at) + 1] = Alt
                            \/ trace[m].op \in FailureLogs
                   /\ (\E k \in 1..Len(get_key(IfOf(trace[n].at), "click", <<>>, <<>>)) :
                          IsDict(get_key(IfOf(trace[n].at), "click", <<>>, <<>>)[k]))
                      => n < Len(trace) /\ Inside(trace[n].at, n + 1)
              ELSE /\ n < Len(trace)
                   /\ trace[n + 1].op = "count"
                   /\ trace[n + 1].at = trace[n].at
                   /\ \A m \in 1..Len(trace) : ~Inside(trace[n].at, m)

\* a condition with the status "Found" was counted, the step failed without
\* a click, and the failure was swallowed at top level
C28_Witness ==
    \E n \in 1..Len(trace) :
        /\ trace[n].op = "cond_count"
        /\ Len(trace[n].at) = 1
        /\ StatusOf(IfOf(trace[n].at)) = "Found"
        /\ Count(trace[n].loc) > 0
        /\ n < Len(trace)
        /\ trace[n + 1] = Log("step_ignored", trace[n].at)

\* ---------------------------------------------------------------- C29
\* entry n dispatches an array or group step whose nested list is missing
\* or empty
EmptyNested(n) ==
    /\ trace[n].op \in {"step", "action"}
    /\ \/ /\ KindOf(StepAt(trace[n].at)) = "array"
          /\ get_key(StepAt(trace[n].at), "click", <<>>, <<>>) = <<>>
       \/ /\ KindOf(StepAt(trace[n].at)) = "group_action"
          /\ get_key(StepAt(trace[n].at), "actions", <<"steps">>, <<>>) = <<>>

\* the parents counted at entry n leave one to work on: there is a match,
\* and array_select_one, if given, points at one
ParentSelected(n) ==
    /\ Count(trace[n].loc) > 0
    /\ "array_select_one" \in DOMAIN StepAt(trace[n].at)
       => /\ StepAt(trace[n].at)["array_select_one"] >= 0
          /\ StepAt(trace[n].at)["array_select_one"] < Count(trace[n].loc)

\* the step counted at entry n raised: a handler around it logs next
RaisedAfter(n) ==
    /\ n < Len(trace)
    /\ trace[n + 1].op \in FailureLogs
    /\ IsPrefix(trace[n + 1].at, trace[n].at)

\* the claim as stated: the step fails whatever the number of parents
C29_AsStated ==
    \A n \in 1..Len(trace) :
        EmptyNested(n)
        => /\ n < Len(trace)
           /\ trace[n + 1].op = "count"
           /\ RaisedAfter(n + 1)

\* C29: an array step without child clicks and a group step without nested
\* actions counts its parents and performs nothing under them.  It fails
\* when a parent is selected, and also when none is and the step does not
\* ignore errors; when none is selected (no match, or array_select_one out
\* of range) and the step ignores errors it ends with a warning and
\* without a failure.
C29_EmptyNestedList ==
    \A n \in 1..Len(trace) :
        EmptyNested(n)
        => /\ n < Len(trace)
           /\ trace[n + 1].op = "count"
           /\ trace[n + 1].at = trace[n].at
           /\ \A m \in 1..Len(trace) : ~Inside(trace[n].at, m)
           /\ IF ParentSelected(n + 1)
                 \/ ~get_key(StepAt(trace[n].at), "ignore", <<>>, FALSE)
              THEN RaisedAfter(n + 1)
              ELSE /\ n + 1 < Len(trace)
                   /\ trace[n + 2] = Log("warning", trace[n].at)
                   /\ n + 2 < Len(trace) => trace[n + 3].op \notin FailureLogs

\* an array step without clicks found two parents and ended the run
C29_Witness ==
    \E n \in 1..Len(trace) :
        /\ EmptyNested(n)
        /\ KindOf(StepAt(trace[n].at)) = "array"
        /\ n + 2 = Len(trace)
        /\ trace[n + 1].op = "count"
        /\ Count(trace[n + 1].loc) = 2
        /\ trace[n + 2] = Log("step_failed", trace[n].at)
        /\ status = "aborted"

\* a group step without actions found no parent, ignored that and the run
\* went on to its end
C29_ToleratedWithoutParents ==
    \E n \in 1..Len(trace) :
        /\ EmptyNested(n)
        /\ KindOf(StepAt(trace[n].at)) = "group_action"
        /\ n + 2 <= Len(trace)
        /\ trace[n + 1].op = "count"
        /\ Count(trace[n + 1].loc) = 0
        /\ trace[n + 2] = Log("warning", trace[n].at)
        /\ status = "completed"

\* ---------------------------------------------------------------- C30
\* entry n dispatches a goto step
GotoAt(n) ==
    /\ trace[n].op \in {"step", "action"}
    /\ KindOf(StepAt(trace[n].at)) = "goto"

\* what a goto step is read to name: whatever `value` holds when the key
\* is there, else whatever `url` holds, else a key that is `value` in
\* another case
UrlRead(step) ==
    IF "value" \in DOMAIN step THEN step["value"]
    ELSE IF "url" \in DOMAIN step THEN step["url"]
    ELSE IF "Value" \in DOMAIN step THEN step["Value"]
    ELSE IF "VALUE" \in DOMAIN step THEN step["VALUE"]
    ELSE None

\* the field holds a URL
HoldsUrl(step, k) == k \in DOMAIN step /\ step[k] \notin {None, ""}

\* the navigations of the step dispatched at entry n
Navigations(n) ==
    {m \in 1..Len(trace) : trace[m].op = "goto" /\ trace[m].at = trace[n].at}

\* the claim as stated: a URL in either field is navigated to
C30_AsStated ==
    \A n \in 1..Len(trace) :
        GotoAt(n) /\ (HoldsUrl(StepAt(trace[n].at), "value")
                      \/ HoldsUrl(StepAt(trace[n].at), "url"))
        => /\ Navigations(n) = {n + 1}
           /\ trace[n + 1].arg =
                 IF HoldsUrl(StepAt(trace[n].at), "value")
                 THEN StepAt(trace[n].at)["value"]
                 ELSE StepAt(trace[n].at)["url"]

\* C30: a goto step reads `value` when the key is there, whatever it holds,
\* and `url` only when it is not.  When what it reads is a URL it navigates
\* exactly once, to that URL, right after the dispatch; when it is empty or
\* None the step fails before any navigation, even if the other field
\* holds a URL.
C30_GotoUrl ==
    \A n \in 1..Len(trace) :
        GotoAt(n)
        => IF UrlRead(StepAt(trace[n].at)) \in {None, ""}
           THEN /\ Navigations(n) = {}
                /\ n < Len(trace)
                /\ trace[n + 1].op \in FailureLogs
                /\ IsPrefix(trace[n + 1].at, trace[n].at)
           ELSE /\ Navigations(n) = {n + 1}
                /\ trace[n + 1].arg = UrlRead(StepAt(trace[n].at))

\* a goto step without `value` navigated to its `url`
C30_Witness ==
    \E n \in 1..Len(trace) :
        /\ GotoAt(n)
        /\ "value" \notin DOMAIN StepAt(trace[n].at)
        /\ HoldsUrl(StepAt(trace[n].at), "url")
        /\ n < Len(trace)
        /\ trace[n + 1].op = "goto" /\ trace[n + 1].ok
        /\ trace[n + 1].arg = "https://b/y"

\* a goto step with an empty `value` and a URL under `url` ended the run
\* without navigating
C30_EmptyValueShadowsUrl ==
    \E n \in 1..Len(trace) :
        /\ GotoAt(n)
        /\ "value" \in DOMAIN StepAt(trace[n].at)
        /\ StepAt(trace[n].at)["value"] = ""
        /\ HoldsUrl(StepAt(trace[n].at), "url")
        /\ Navigations(n) = {}
        /\ n + 1 = Len(trace)
        /\ trace[n + 1] = Log("step_failed", trace[n].at)
        /\ status = "aborted"

\* ---------------------------------------------------------------- C31
\* normalize_class_selector has returned for a class that starts with a dot
DottedNormalized ==
    /\ call.fn = "normalize_class_selector"
    /\ result # <<>>
    /\ call.cls \notin {None, ""}
    /\ SubSeq(call.cls, 1, 1) = "."

\* the claim as stated: the clause is the class, character for character
C31_AsStated == DottedNormalized => result[1] = call.cls

\* C31: for a class that starts with a dot the class clause is the class
\* without its trailing whitespace: inner whitespace is kept, and a class
\* without trailing whitespace comes back character for character.
C31_DottedClass ==
    DottedNormalized
    => /\ result[1] = RStrip(call.cls)
       /\ SubSeq(call.cls, Len(call.cls), Len(call.cls)) # " "
          => result[1] = call.cls

\* the dotted class ".a  .b " came back with its inner spaces and without
\* the trailing one
C31_Witness ==
    /\ DottedNormalized
    /\ call.cls = ".a  .b "
    /\ result[1] = ".a  .b"

\* ---------------------------------------------------------------- C32
\* what is left of a name to make a file name of: the name without the
\* whitespace around it, the default when nothing is left
BaseOf(name, default) ==
    IF name = None \/ Strip(name) = "" THEN default ELSE Strip(name)

\* `safe` is `base` with an underscore in the place of each unsafe character
Underscored(safe, base) ==
    /\ Len(safe) = Len(base)
    /\ \A n \in 1..Len(base) :
          SubSeq(safe, n, n) = IF SubSeq(base, n, n) \in UnsafeChars
                               THEN "_" ELSE SubSeq(base, n, n)

\* a name a file can be saved under: not empty, no unsafe character
Safe(name) ==
    /\ name # ""
    /\ \A n \in 1..Len(name) : SubSeq(name, n, n) \notin UnsafeChars

\* C32: the name download_from_link saves under is made of the step's
\* filename when the step has one, else of the suggested name: it is that
\* name without the whitespace around it, or "download" when nothing is
\* left, with an underscore for each of \ / * ? : " < > |.  What
\* make_safe_filename returns is never empty and holds none of these
\* characters, and handed back to make_safe_filename with the same default
\* and extension it comes back unchanged.
C32_SafeFilename ==
    /\ call.fn = "safe_name" /\ result # <<>>
       => /\ Underscored(result[1],
                         BaseOf(IF call.filename \notin {None, ""}
                                THEN call.filename ELSE call.suggested,
                                "download"))
          /\ Safe(result[1])
    /\ call.fn = "make_safe_filename" /\ result # <<>>
       => /\ Safe(result[1])
          /\ Len(result) = 2 => result[2] = result[1]

\* "a:b|c" became "a_b_c.txt", and "a_b_c.txt" stayed what it was
C32_Witness ==
    /\ call.fn = "make_safe_filename"
    /\ call.name = "a:b|c" /\ call.ext = ".txt"
    /\ result = <<"a_b_c.txt", "a_b_c.txt">>

\* without a filename the suggested name "a/b.mp4" was saved as "a_b.mp4"
C32_SuggestedUsed ==
    /\ call.fn = "safe_name"
    /\ call.filename = None /\ call.suggested = "a/b.mp4"
    /\ result = <<"a_b.mp4">>

\* ---------------------------------------------------------------- C33
\* entry n is the lookup of an action nested in a group: a click, write,
\* scroll, array, group_action or download_from_link of its list
NestedLookup(n) ==
    /\ trace[n].op = "count"
    /\ Len(trace[n].at) >= 3
    /\ trace[n].at[Len(trace[n].at) - 1] # Alt
    /\ KindOf(StepAt(Outer(trace[n].at))) = "group_action"

\* the parents the group at path g found
ParentsFoundBy(g) ==
    trace[CHOOSE x \in 1..Len(trace) : trace[x].op = "count" /\ trace[x].at = g].loc

\* an action before the one at path p, in the same list and for the same
\* parent, was a frame, main_frame or goto action
FrameActionBefore(p) ==
    \E j \in 1..(p[Len(p)] - 1) :
        KindOf(Child(StepAt(Outer(p)), p[Len(p) - 1], j))
            \in {"frame", "main_frame", "goto"}

\* C33: every selector a nested action of a group resolves, it resolves
\* against the parent element of the iteration it runs in (the group's
\* parents, at the index of the iteration), in the frame of that parent:
\* a frame, main_frame or goto action earlier in the list changes the frame
\* the later actions are dispatched with, not their root.
C33_NestedRootIsParent ==
    \A n \in 1..Len(trace) :
        NestedLookup(n)
        => /\ trace[n].loc.frame = ParentsFoundBy(Outer(trace[n].at)).frame
           /\ SubSeq(trace[n].loc.path, 1, Len(trace[n].loc.path) - 1)
                 = [ParentsFoundBy(Outer(trace[n].at)).path
                       EXCEPT ![Len(ParentsFoundBy(Outer(trace[n].at)).path)].n
                                  = trace[n].at[Len(trace[n].at) - 1]]

\* after a nested frame action had switched the local frame to "pay", the
\* next nested action was dispatched with "pay" and still looked its
\* element up under the second parent, in the page
C33_Witness ==
    \E n \in 2..Len(trace) :
        /\ NestedLookup(n)
        /\ FrameActionBefore(trace[n].at)
        /\ trace[n - 1].op = "action"
        /\ trace[n - 1].at = trace[n].at
        /\ trace[n - 1].arg = "pay"
        /\ trace[n].at[Len(trace[n].at) - 1] = 1
        /\ trace[n].loc.frame = None
        /\ trace[n].loc.path[1].n = 1

\* ---------------------------------------------------------------- C34
\* the run loop takes a goto or frame step, the step fails and the failure
\* is ignored
IgnoredFrameStep ==
    /\ status = "running"
    /\ pc = "run"
    /\ idx <= Len(workflow)
    /\ KindOf(workflow[idx]) \in {"goto", "frame"}
    /\ trace' # trace
    /\ trace'[Len(trace')] = Log("step_ignored", <<idx>>)

\* C34: a top-level goto or frame step that fails and is ignored leaves the
\* frame of the run loop as it was
C34_Step == IgnoredFrameStep => current_frame' = current_frame
C34_FailedStepKeepsFrame == [][C34_Step]_vars

\* the second step, a goto, failed without navigating and was ignored, and
\* the run loop is still in the frame "pay" of the first step
C34_Witness ==
    /\ Len(workflow) >= 2
    /\ KindOf(workflow[2]) = "goto"
    /\ idx = 3
    /\ current_frame = "pay"
    /\ trace[Len(trace)] = Log("step_ignored", <<2>>)
    /\ \A n \in 1..Len(trace) : trace[n].op = "goto" => ~trace[n].ok

\* ---------------------------------------------------------------- C35
\* the step has no kind: no `type`, or an empty one
NoKind(step) == "type" \notin DOMAIN step \/ step["type"] \in {None, ""}

\* the list the entry at path p is in
GroupListOf(p) == get_key(StepAt(Outer(p)), "actions", <<"steps">>, <<>>)

\* path p is an entry of the list of a group
InGroupList(p) ==
    /\ Len(p) >= 3
    /\ p[Len(p) - 1] # Alt
    /\ KindOf(StepAt(Outer(p))) = "group_action"

\* C35: a top-level step without a kind does nothing; with its ignore flag
\* it is skipped and the run goes on, without it the run is aborted there.
\* A nested action of a group without a kind is never dispatched and never
\* fails: it is skipped with a warning, whatever its flag and the group's,
\* and the next action of the list is the next thing the group takes up.
C35_NoKind ==
    /\ \A n \in 1..Len(trace) :
          trace[n].op = "step" /\ NoKind(StepAt(trace[n].at))
          => /\ \A m \in 1..Len(trace) :
                   IsPrefix(trace[n].at, trace[m].at)
                   => m = n \/ (m = n + 1 /\ trace[m].op = "step_ignored")
             /\ IF IgnoreOf(StepAt(trace[n].at))
                THEN /\ n < Len(trace)
                     /\ trace[n + 1] = Log("step_ignored", trace[n].at)
                     /\ idx > trace[n].at[1]
                ELSE /\ n = Len(trace)
                     /\ status = "aborted"
                     /\ idx = trace[n].at[1]
    /\ \A n \in 1..Len(trace) :
          InGroupList(trace[n].at)
          => /\ NoKind(StepAt(trace[n].at)) <=> trace[n].op = "action_skipped"
             /\ trace[n].op = "action_skipped"
                   /\ trace[n].at[Len(trace[n].at)] < Len(GroupListOf(trace[n].at))
                => /\ n < Len(trace)
                   /\ trace[n + 1].op \in {"action", "action_skipped"}
                   /\ trace[n + 1].at
                         = [trace[n].at EXCEPT ![Len(trace[n].at)] = @ + 1]
             /\ trace[n].at[Len(trace[n].at)] > 1
                   /\ NoKind(GroupListOf(trace[n].at)[trace[n].at[Len(trace[n].at)] - 1])
                => \E m \in 1..(n - 1) :
                      /\ trace[m].op = "action_skipped"
                      /\ trace[m].at = [trace[n].at EXCEPT ![Len(trace[n].at)] = @ - 1]
    /\ \A n \in 1..Len(trace) :
          /\ trace[n].op = "scroll_into_view"
          /\ KindOf(StepAt(trace[n].at)) = "group_action"
          /\ NoKind(get_key(StepAt(trace[n].at), "actions", <<"steps">>, <<>>)[1])
          => /\ n < Len(trace)
             /\ trace[n + 1].op = "action_skipped"
             /\ Outer(trace[n + 1].at) = trace[n].at
             /\ trace[n + 1].at[Len(trace[n + 1].at)] = 1

\* in a group that does not ignore errors, the second nested action, without
\* a kind and without a flag, was skipped and the third was dispatched; the
\* run completed
C35_Witness ==
    \E n \in 1..Len(trace) :
        /\ trace[n].op = "action_skipped"
        /\ trace[n].at[Len(trace[n].at)] = 2
        /\ ~IgnoreOf(StepAt(trace[n].at))
        /\ ~IgnoreOf(StepAt(Outer(trace[n].at)))
        /\ n < Len(trace)
        /\ trace[n + 1].op = "action"
        /\ status = "completed"

\* a top-level step without a kind and without a flag ended the run
C35_TopLevelAborted ==
    /\ status = "aborted"
    /\ trace # <<>>
    /\ trace[Len(trace)].op = "step"
    /\ NoKind(workflow[idx])

\* ---------------------------------------------------------------- C36
\* the calls made on the page, on a frame of it or on an element of it
PageCalls ==
    {"goto", "count", "cond_count", "frame", "frames", "frame_locator",
     "scrollTo", "content", "inner_text"} \cup OnElement

\* the tabs open before entry n: the first, and one for each link clicked
OpenBefore(n) ==
    1 + Cardinality({m \in 1..(n - 1) :
                        trace[m].op = "click" /\ trace[m].ok /\ HasHref(trace[m].loc)})

Terminal == status \in {"completed", "aborted"}

\* the entries that open a step, a nested action, or pass over one
Openings == {"step", "action", "action_skipped"}

\* the parents the group at path g works on, `found` being its parents:
\* one with array_select_one, else all of them
SelectedParents(g, found) ==
    IF "array_select_one" \in DOMAIN StepAt(g) THEN 1 ELSE Count(found)

\* the nested actions the group at path g took up
TakenUpBy(g) ==
    {m \in 1..Len(trace) :
        /\ trace[m].op \in Openings
        /\ Len(trace[m].at) = Len(g) + 2
        /\ Outer(trace[m].at) = g
        /\ trace[m].at[Len(trace[m].at) - 1] # Alt}

\* no step and no nested action is taken up twice, the steps of the
\* workflow are taken up in order, and a group takes up at most as many
\* nested actions as it has selected parents times entries in its list
NoRetry ==
    /\ \A n \in 1..Len(trace) : \A m \in 1..Len(trace) :
          /\ trace[n].op \in Openings
          /\ trace[m].op \in Openings
          /\ trace[n].at = trace[m].at
          => n = m
    /\ \A n \in 1..Len(trace) : \A m \in 1..Len(trace) :
          trace[n].op = "step" /\ trace[m].op = "step" /\ n < m
          => trace[n].at[1] < trace[m].at[1]
    /\ \A n \in 1..Len(trace) :
          trace[n].op = "count" /\ KindOf(StepAt(trace[n].at)) = "group_action"
             /\ (Len(trace[n].at) > 1 => trace[n].at[Len(trace[n].at) - 1] # Alt)
          => Cardinality(TakenUpBy(trace[n].at))
                <= SelectedParents(trace[n].at, trace[n].loc)
                      * Len(get_key(StepAt(trace[n].at), "actions", <<"steps">>, <<>>))

\* C37: every run reaches a terminal state, completed or aborted; on the
\* way no step and no nested action is tried twice, and a group takes up at
\* most (selected parents) x (length of its list) nested actions.
C37_Terminates == <>Terminal /\ []NoRetry

\* a group with two parents and three nested actions took up all six and
\* the run completed
C37_Witness ==
    /\ status = "completed"
    /\ \E n \in 1..Len(trace) :
          /\ trace[n].op = "count"
          /\ Len(trace[n].at) = 1
          /\ KindOf(StepAt(trace[n].at)) = "group_action"
          /\ Count(trace[n].loc) = 2
          /\ Len(get_key(StepAt(trace[n].at), "actions", <<"steps">>, <<>>)) = 3
          /\ Cardinality(TakenUpBy(trace[n].at)) = 6

\* the calls of a run on the automation surface, in order
IsSurface(ev) == ev.op \in PageCalls \cup {"bring_to_front"}
Surface(tr) == SelectSeq(tr, IsSurface)

\* the run of appCoursera.py has ended
CourseraTerminal == coursera.status \in {"completed", "aborted"}

TargetOf(c) == Nth(LocOf(c), c.index)

\* what the surface answers makes the call fail: nothing matches, the index
\* is out of range, the element never becomes visible, or the click raises
NoMatch(c) == Count(LocOf(c)) = 0
IndexOutOfRange(c) == c.index < 0 \/ c.index >= Count(LocOf(c))
VisibilityTimeout(c) == ~NoMatch(c) /\ ~IndexOutOfRange(c) /\ ~Visible(TargetOf(c))
ClickError(c) ==
    ~NoMatch(c) /\ ~IndexOutOfRange(c) /\ Visible(TargetOf(c))
        /\ ~Clickable(TargetOf(c))
CallFails(c) == NoMatch(c) \/ IndexOutOfRange(c) \/ VisibilityTimeout(c) \/ ClickError(c)

\* C39: wait_and_click with ignore_error true never raises, and returns
\* False whenever the surface makes it fail; with ignore_error false every
\* failure, the visibility timeout included, leaves it as a RuntimeError.
\* No timeout leaves it, so the caller's `except PWTimeout` is not entered
\* and the caller ends as wait_and_click did.
C39_WaitAndClick ==
    (call.fn = "wait_and_click" /\ result # <<>>) =>
        /\ call.ignore_error =>
              /\ result[1].exc = "none"
              /\ CallFails(call) => result[1].ret = FALSE
        /\ (~call.ignore_error /\ CallFails(call)) => result[1].exc = "RuntimeError"
        /\ result[1].exc # "PWTimeout"
        /\ Len(result) = 2 =>
              result[2] = [tr |-> result[1].tr, exc |-> result[1].exc]

\* the element never became visible, ignore_error was false, and the caller
\* has taken the outcome
C39_Witness ==
    /\ call.fn = "wait_and_click"
    /\ Len(result) = 2
    /\ ~call.ignore_error
    /\ VisibilityTimeout(call)
    /\ result[2].exc = "RuntimeError"

====
